---------------------------- MODULE Spec2Model ----------------------------
(***************************************************************************)
(* Entity resolution (scripts/collect_byline_data.py) and incremental      *)
(* season aggregation (scripts/collect_nfl_performance.py).                *)
(*                                                                         *)
(* Strings are sequences of one-character strings; None and "" are both    *)
(* the empty sequence wherever the code tests them with `not x`.           *)
(* Fantasy points are integers in hundredths of a point.                   *)
(***************************************************************************)
EXTENDS Integers, Sequences, FiniteSets, TLC

VARIABLES
    \* --- normalizer harness: one pure function applied once, then again
    norm_kind,          \* "name" | "team" | "position"
    norm_in,            \* the raw input string
    norm_out1,          \* f(norm_in)
    norm_out2,          \* f(f(norm_in))
    norm_pc,            \* number of applications done: 0, 1, 2
    \* --- generate_integrated_database: one resolution pass
    players,            \* dict sleeper_id -> record, in insertion order (id = index)
    adp_data,           \* dict adp_id -> record, in insertion order (id = index)
    matches,            \* dict sleeper_id -> link
    unmatched_sleeper,  \* set of sleeper ids
    unmatched_adp,      \* set of adp ids
    strategy1_matches,
    strategy2_matches,
    strategy3_matches,
    pc,                 \* the loop the pass is in
    s1_next,            \* strategy 1: index of the next players item
    set_order,          \* iteration order of the set unmatched_sleeper
    todo,               \* strategies 2, 3: rest of the list(unmatched_sleeper) snapshot
    integrated,         \* the integrated database the pass builds after matching
    \* --- the same pass run again on the same collections
    adp_order,          \* iteration order of the set unmatched_adp, when it is fixed
    first_matches,      \* the matches of the first run
    run,                \* 1 | 2
    \* --- NFLPerformanceCollector: the stores and their files
    performance_data,   \* dict week -> dict player key -> period record
    totals_data,        \* dict player key -> season totals entry
    performance_file,   \* what season_2025_performances.json loads as
    totals_file,        \* what season_2025_totals.json loads as
    collect_results,    \* history: what each collect_week call returned
    applied,            \* history: the <<key, record>> of each update_season_totals call
    raised,             \* whether the last direct update_season_totals call raised
    \* --- scorer harness: calculate_name_similarity applied to two names
    sim_name1,
    sim_name2,
    sim_score,          \* calculate_name_similarity(sim_name1, sim_name2)
    sim_pc,             \* number of applications done: 0, 1
    \* --- BylineDataCollector.save_performance_data: the consolidated season file
    season_file,        \* what season_2025_performances.json holds
    saves,              \* history: the week, list and outcome of each call
    \* --- NFLPerformanceCollector.collect_season: the loop over the weeks
    start_week,
    end_week,
    success_count,
    attempted,          \* history: the weeks collect_week was called for, in call order
    season_pc           \* "idle" | "loop" | "done"

normVars == <<norm_kind, norm_in, norm_out1, norm_out2, norm_pc>>

inputVars == <<players, adp_data>>

matchVars ==
    <<players, adp_data, matches, unmatched_sleeper, unmatched_adp, strategy1_matches,
      strategy2_matches, strategy3_matches, pc, s1_next, set_order, todo>>

aggVars ==
    <<performance_data, totals_data, performance_file, totals_file, collect_results,
      applied, raised>>

rerunVars == <<adp_order, first_matches, run, integrated>>

simVars == <<sim_name1, sim_name2, sim_score, sim_pc>>

saveVars == <<season_file, saves>>

seasonVars == <<start_week, end_week, success_count, attempted, season_pc>>

vars == <<normVars, matchVars, aggVars, rerunVars, simVars, saveVars, seasonVars>>

\* what a resolution pass leaves alone
outsideMatch == <<normVars, aggVars, rerunVars, simVars, saveVars, seasonVars>>

\* what a normalizer call leaves alone
outsideNorm == <<matchVars, aggVars, rerunVars, simVars, saveVars, seasonVars>>

\* what the collector leaves alone
outsideAgg == <<normVars, matchVars, rerunVars, simVars, saveVars, seasonVars>>

\* what a scorer call leaves alone
outsideSim == <<normVars, matchVars, aggVars, rerunVars, saveVars, seasonVars>>

\* what collect_season and the collect_week calls it makes leave alone
outsideSeason == <<normVars, matchVars, rerunVars, simVars, saveVars>>

\* what a save_performance_data call leaves alone
outsideSave == <<normVars, matchVars, aggVars, rerunVars, simVars, seasonVars>>

-----------------------------------------------------------------------------
(* Bounds *)

\* longest raw name enumerated for the normalizer harness
MaxNameLen == 4

\* most records in the primary (Sleeper) collection of a pass
MaxPlayers == 2

\* most records in the candidate (ADP) collection of a pass
MaxAdp == 2

\* the weeks of the season that are collected: 1..MaxWeek
MaxWeek == 3

\* most update_season_totals calls in one run
MaxUpdates == 3

\* most collect_week calls in one run
MaxCollects == 2

\* calls on one collector when update_season_totals and collect_week are mixed
MaxCalls == 2

\* length of the names the scorer harness tries
MaxSimLen == 3

\* save_performance_data calls in a run
MaxSaves == 2

-----------------------------------------------------------------------------
(* str methods used by the normalizers *)

LowerChars ==
    << "a","b","c","d","e","f","g","h","i","j","k","l","m",
       "n","o","p","q","r","s","t","u","v","w","x","y","z" >>

UpperChars ==
    << "A","B","C","D","E","F","G","H","I","J","K","L","M",
       "N","O","P","Q","R","S","T","U","V","W","X","Y","Z" >>

WhitespaceChars == {" ", "\t"}

\* str.lower() on one character
LowerChar(c) ==
    IF \E i \in 1..26 : UpperChars[i] = c
    THEN LowerChars[CHOOSE i \in 1..26 : UpperChars[i] = c]
    ELSE c

\* str.upper() on one character
UpperChar(c) ==
    IF \E i \in 1..26 : LowerChars[i] = c
    THEN UpperChars[CHOOSE i \in 1..26 : LowerChars[i] = c]
    ELSE c

\* str.lower()
Lower(s) == [i \in 1..Len(s) |-> LowerChar(s[i])]

\* str.upper()
Upper(s) == [i \in 1..Len(s) |-> UpperChar(s[i])]

RECURSIVE LStrip(_)
LStrip(s) ==
    IF s # <<>> /\ s[1] \in WhitespaceChars THEN LStrip(Tail(s)) ELSE s

RECURSIVE RStrip(_)
RStrip(s) ==
    IF s # <<>> /\ s[Len(s)] \in WhitespaceChars
    THEN RStrip(SubSeq(s, 1, Len(s) - 1))
    ELSE s

\* str.strip()
Strip(s) == RStrip(LStrip(s))

\* str.replace(old, new) for a non-empty old: leftmost, non-overlapping
RECURSIVE Replace(_, _, _)
Replace(s, old, new) ==
    IF Len(s) < Len(old) THEN s
    ELSE IF SubSeq(s, 1, Len(old)) = old
         THEN new \o Replace(SubSeq(s, Len(old) + 1, Len(s)), old, new)
         ELSE <<s[1]>> \o Replace(Tail(s), old, new)

\* re.sub(r'\s+', ' ', s): every maximal whitespace run becomes one space
RECURSIVE CollapseWs(_)
CollapseWs(s) ==
    IF s = <<>> THEN <<>>
    ELSE IF s[1] \in WhitespaceChars
         THEN <<" ">> \o CollapseWs(LStrip(s))
         ELSE <<s[1]>> \o CollapseWs(Tail(s))

\* str.split(): the whitespace-delimited words, in order
RECURSIVE SplitFrom(_, _)
SplitFrom(s, word) ==
    IF s = <<>> THEN (IF word = <<>> THEN <<>> ELSE <<word>>)
    ELSE IF s[1] \in WhitespaceChars
         THEN (IF word = <<>> THEN <<>> ELSE <<word>>) \o SplitFrom(Tail(s), <<>>)
         ELSE SplitFrom(Tail(s), Append(word, s[1]))

Split(s) == SplitFrom(s, <<>>)

\* `x in list`
InList(x, list) == \E i \in 1..Len(list) : list[i] = x

-----------------------------------------------------------------------------
(* Normalizer: normalize_name, normalize_position, normalize_team *)

\* the replacements dict, in insertion (= iteration) order
\* the table without the expansions of the two-letter nicknames
replacements_without_nicknames ==
    << << <<"j","r",".">>, <<>> >>,
       << <<"s","r",".">>, <<>> >>,
       << <<"i","i","i">>, <<>> >>,
       << <<"i","i">>, <<>> >>,
       << <<"i","v">>, <<>> >>,
       << <<".">>, <<>> >>,
       << <<"'">>, <<>> >>,
       << <<"-">>, <<" ">> >> >>

replacements ==
    << << <<"j","r",".">>, <<>> >>,
       << <<"s","r",".">>, <<>> >>,
       << <<"i","i","i">>, <<>> >>,
       << <<"i","i">>, <<>> >>,
       << <<"i","v">>, <<>> >>,
       << <<".">>, <<>> >>,
       << <<"'">>, <<>> >>,
       << <<"-">>, <<" ">> >>,
       << <<"d","j">>, <<"d",".","j",".">> >>,
       << <<"c","j">>, <<"c",".","j",".">> >>,
       << <<"a","j">>, <<"a",".","j",".">> >>,
       << <<"t","j">>, <<"t",".","j",".">> >>,
       << <<"j","j">>, <<"j",".","j",".">> >>,
       << <<"b","j">>, <<"b",".","j",".">> >>,
       << <<"r","j">>, <<"r",".","j",".">> >>,
       << <<"p","j">>, <<"p",".","j",".">> >> >>

\* for old, new in replacements.items(): normalized = normalized.replace(old, new)
RECURSIVE ApplyReplacements(_, _)
ApplyReplacements(s, k) ==
    IF k > Len(replacements) THEN s
    ELSE ApplyReplacements(Replace(s, replacements[k][1], replacements[k][2]), k + 1)

normalize_name(name) ==
    IF name = <<>> THEN <<>>
    ELSE Strip(CollapseWs(ApplyReplacements(Strip(Lower(name)), 1)))

pos_mappings ==
    << << <<"K">>, << <<"K">>, <<"P","K">>, <<"K","I","C","K","E","R">> >> >>,
       << <<"D","E","F">>, << <<"D","E","F">>, <<"D","S","T">>, <<"D","/","S","T">>,
                              <<"D","E","F","E","N","S","E">> >> >>,
       << <<"Q","B">>, << <<"Q","B">>, <<"Q","U","A","R","T","E","R","B","A","C","K">> >> >>,
       << <<"R","B">>, << <<"R","B">>, <<"R","U","N","N","I","N","G","B","A","C","K">> >> >>,
       << <<"W","R">>, << <<"W","R">>,
                          <<"W","I","D","E"," ","R","E","C","E","I","V","E","R">> >> >>,
       << <<"T","E">>, << <<"T","E">>, <<"T","I","G","H","T"," ","E","N","D">> >> >> >>

\* a table in which LA is a variant of two canonical codes
team_mappings_shared_alias ==
    << << <<"L","A","C">>, << <<"L","A","C">>, <<"L","A">>, <<"S","D">> >> >>,
       << <<"L","A","R">>, << <<"L","A","R">>, <<"L","A">>, <<"S","T","L">> >> >> >>

team_mappings ==
    << << <<"K","C">>, << <<"K","C">>, <<"K","A","N">> >> >>,
       << <<"L","V">>, << <<"L","V">>, <<"L","V","R">>, <<"O","A","K">>, <<"R","A","I">> >> >>,
       << <<"L","A","C">>, << <<"L","A","C">>, <<"S","D">>, <<"S","D","G">> >> >>,
       << <<"L","A","R">>, << <<"L","A","R">>, <<"L","A">>, <<"S","T","L">> >> >>,
       << <<"W","A","S">>, << <<"W","A","S">>, <<"W","S","H">> >> >>,
       << <<"N","E">>, << <<"N","E">>, <<"N","E","P">> >> >>,
       << <<"N","O">>, << <<"N","O">>, <<"N","O","S">> >> >>,
       << <<"G","B">>, << <<"G","B">>, <<"G","B","P">> >> >>,
       << <<"T","B">>, << <<"T","B">>, <<"T","B","B">> >> >>,
       << <<"S","F">>, << <<"S","F">>, <<"S","F","O">> >> >>,
       << <<"J","A","X">>, << <<"J","A","X">>, <<"J","A","C">> >> >>,
       << <<"A","R","I">>, << <<"A","R","I">>, <<"A","R","Z">> >> >> >>

\* for canonical, variants in mappings.items(): if x in variants: return canonical
\* return x
LookupAlias(mappings, x) ==
    IF \E k \in 1..Len(mappings) : InList(x, mappings[k][2])
    THEN LET first == CHOOSE k \in 1..Len(mappings) :
                          /\ InList(x, mappings[k][2])
                          /\ \A m \in 1..(k - 1) : ~InList(x, mappings[m][2])
         IN  mappings[first][1]
    ELSE x

normalize_position(position) ==
    IF position = <<>> THEN <<>>
    ELSE LookupAlias(pos_mappings, Strip(Upper(position)))

\* the blanks stripped after the table lookup instead of before it
normalize_team_strip_late(team) ==
    IF team = <<>> THEN <<>>
    ELSE Strip(LookupAlias(team_mappings, Upper(team)))

normalize_team(team) ==
    IF team = <<>> THEN <<>>
    ELSE LookupAlias(team_mappings, Strip(Upper(team)))

-----------------------------------------------------------------------------
(* Normalizer harness: inputs and actions *)

\* characters of the enumerated raw names: the suffix tokens ii, iii, iv, jr.,
\* the nicknames rj and jj, the three punctuation marks, a capital, a blank
NameAlphabet == {"I", "i", "v", "j", "r", ".", "'", "-", " "}

NameInputs == UNION {[1..n -> NameAlphabet] : n \in 0..MaxNameLen}

\* every string of a table, as written, lower-cased, and padded with blanks
TableStrings(mappings) ==
    UNION {{mappings[k][2][i] : i \in 1..Len(mappings[k][2])} \cup {mappings[k][1]} :
           k \in 1..Len(mappings)}

Spellings(strings) ==
    UNION {{s, Lower(s), <<" ">> \o s, s \o <<" ">>, <<" ">> \o Lower(s) \o <<" ">>} :
           s \in strings}

UnknownCodes ==
    {<<>>, <<" ">>, <<"F","A">>, <<"f","a">>, <<"P","H","I">>, <<"L","B">>,
     <<"l","a","x">>, <<"R"," ","B">>}

TeamInputs == Spellings(TableStrings(team_mappings)) \cup Spellings(UnknownCodes)

PositionInputs == Spellings(TableStrings(pos_mappings)) \cup Spellings(UnknownCodes)

NormInputs(kind) ==
    CASE kind = "name" -> NameInputs
      [] kind = "team" -> TeamInputs
      [] kind = "position" -> PositionInputs

Normalize(kind, s) ==
    CASE kind = "name" -> normalize_name(s)
      [] kind = "team" -> normalize_team(s)
      [] kind = "position" -> normalize_position(s)

\* out = normalize_x(raw)
ApplyNormalize ==
    /\ norm_pc = 0
    /\ norm_out1' = Normalize(norm_kind, norm_in)
    /\ norm_pc' = 1
    /\ UNCHANGED <<norm_kind, norm_in, norm_out2>>
    /\ UNCHANGED outsideNorm

\* out = normalize_x(normalize_x(raw))
ReapplyNormalize ==
    /\ norm_pc = 1
    /\ norm_out2' = Normalize(norm_kind, norm_out1)
    /\ norm_pc' = 2
    /\ UNCHANGED <<norm_kind, norm_in, norm_out1>>
    /\ UNCHANGED outsideNorm


-----------------------------------------------------------------------------
(* Similarity Scorer: calculate_name_similarity                            *)
(* A score is a fraction <<numerator, denominator>>, denominator > 0.      *)

ScoreGeq(x, y) == x[1] * y[2] >= y[1] * x[2]

ScoreGt(x, y) == x[1] * y[2] > y[1] * x[2]

ScoreEq(x, y) == x[1] * y[2] = y[1] * x[2]

\* length of the longest common prefix of a[i..] and b[j..]
RECURSIVE CommonPrefixLen(_, _, _, _)
CommonPrefixLen(a, i, b, j) ==
    IF i > Len(a) \/ j > Len(b) \/ a[i] # b[j] THEN 0
    ELSE 1 + CommonPrefixLen(a, i + 1, b, j + 1)

\* SequenceMatcher.find_longest_match over the whole of a and b, no junk:
\* <<i, j, k>> with a[i..i+k-1] = b[j..j+k-1], k maximal, then i minimal,
\* then j minimal; k = 0 when a and b share no character
FindLongestMatch(a, b) ==
    LET size == [p \in (1..Len(a)) \X (1..Len(b)) |-> CommonPrefixLen(a, p[1], b, p[2])]
        k == CHOOSE n \in 0..Len(a) :
                 /\ \A p \in DOMAIN size : size[p] <= n
                 /\ n > 0 => \E p \in DOMAIN size : size[p] = n
        i == CHOOSE x \in 1..Len(a) :
                 /\ \E y \in 1..Len(b) : size[<<x, y>>] = k
                 /\ \A w \in 1..(x - 1) : \A y \in 1..Len(b) : size[<<w, y>>] # k
        j == CHOOSE y \in 1..Len(b) :
                 /\ size[<<i, y>>] = k
                 /\ \A z \in 1..(y - 1) : size[<<i, z>>] # k
    IN  <<i, j, k>>

\* SequenceMatcher.get_matching_blocks: total size of the matching blocks
RECURSIVE MatchedChars(_, _)
MatchedChars(a, b) ==
    IF a = <<>> \/ b = <<>> THEN 0
    ELSE LET m == FindLongestMatch(a, b)
             i == m[1]
             j == m[2]
             k == m[3]
         IN  IF k = 0 THEN 0
             ELSE k + MatchedChars(SubSeq(a, 1, i - 1), SubSeq(b, 1, j - 1))
                    + MatchedChars(SubSeq(a, i + k, Len(a)), SubSeq(b, j + k, Len(b)))

\* SequenceMatcher(None, a, b).ratio() = 2.0 * matches / (len(a) + len(b))
Ratio(a, b) ==
    IF Len(a) + Len(b) = 0 THEN <<1, 1>>
    ELSE <<2 * MatchedChars(a, b), Len(a) + Len(b)>>

\* x + n/10
ScoreAdd(x, tenths) == <<10 * x[1] + tenths * x[2], 10 * x[2]>>

\* min(x, 1.0)
\* without min(similarity, 1.0)
ScoreUncapped(x) == x

ScoreCap(x) == IF x[1] >= x[2] THEN <<1, 1>> ELSE x

\* the equality test before the emptiness test
calculate_name_similarity_equal_first(name1, name2) ==
    LET norm1 == normalize_name(name1)
        norm2 == normalize_name(name2)
        words1 == Split(norm1)
        words2 == Split(norm2)
        last == IF words1 # <<>> /\ words2 # <<>>
                   /\ words1[Len(words1)] = words2[Len(words2)]
                THEN 2 ELSE 0
        first == IF words1 # <<>> /\ words2 # <<>> /\ words1[1] = words2[1]
                 THEN 1 ELSE 0
    IN  IF norm1 = norm2 THEN <<1, 1>>
        ELSE IF norm1 = <<>> \/ norm2 = <<>> THEN <<0, 1>>
        ELSE ScoreCap(ScoreAdd(ScoreAdd(Ratio(norm1, norm2), last), first))

calculate_name_similarity(name1, name2) ==
    LET norm1 == normalize_name(name1)
        norm2 == normalize_name(name2)
        words1 == Split(norm1)
        words2 == Split(norm2)
        last == IF words1 # <<>> /\ words2 # <<>>
                   /\ words1[Len(words1)] = words2[Len(words2)]
                THEN 2 ELSE 0
        first == IF words1 # <<>> /\ words2 # <<>> /\ words1[1] = words2[1]
                 THEN 1 ELSE 0
    IN  IF norm1 = <<>> \/ norm2 = <<>> THEN <<0, 1>>
        ELSE IF norm1 = norm2 THEN <<1, 1>>
        ELSE ScoreCap(ScoreAdd(ScoreAdd(Ratio(norm1, norm2), last), first))

-----------------------------------------------------------------------------
(* Identity records of a resolution pass *)

Str_AJ_Brown == <<"A","J"," ","B","r","o","w","n">>

Str_A_J_Brown == <<"A",".","J","."," ","B","r","o","w","n">>

Str_Cam_Ward == <<"C","a","m"," ","W","a","r","d">>

Str_Cameron_Ward == <<"C","a","m","e","r","o","n"," ","W","a","r","d">>

Str_Kam_Wark == <<"K","a","m"," ","W","a","r","k">>

Str_Kim_Wark == <<"K","i","m"," ","W","a","r","k">>

\* Sleeper player records the primary collection is drawn from
PlayerRecords ==
    { [full_name |-> Str_AJ_Brown, team |-> <<"L","A">>, position |-> <<"W","R">>],
      [full_name |-> Str_AJ_Brown, team |-> <<>>, position |-> <<"W","R">>],
      [full_name |-> <<>>, team |-> <<"L","A">>, position |-> <<"W","R">>],
      [full_name |-> Str_Cam_Ward, team |-> <<"T","E","N">>, position |-> <<"Q","B">>],
      [full_name |-> Str_Cam_Ward, team |-> <<"T","E","N">>, position |-> <<>>] }

\* ADP player records the candidate collection is drawn from
AdpRecords ==
    { [name |-> Str_A_J_Brown, team |-> <<"L","A","R">>, position |-> <<"w","r">>],
      [name |-> Str_A_J_Brown, team |-> <<>>, position |-> <<"W","R">>],
      [name |-> <<>>, team |-> <<"L","A","R">>, position |-> <<"W","R">>],
      [name |-> <<>>, team |-> <<"K","C">>, position |-> <<"W","R">>],
      [name |-> Str_Cameron_Ward, team |-> <<"T","E","N">>, position |-> <<"Q","B">>],
      [name |-> Str_Kam_Wark, team |-> <<"T","E","N">>, position |-> <<"Q","B">>],
      [name |-> Str_Kim_Wark, team |-> <<"T","E","N">>, position |-> <<"Q","B">>],
      [name |-> Str_Cam_Ward, team |-> <<"T","E","N">>, position |-> <<>>] }

\* the two-letter nicknames of the replacements table
Nicknames ==
    {<<"d","j">>, <<"c","j">>, <<"a","j">>, <<"t","j">>, <<"j","j">>, <<"b","j">>,
     <<"r","j">>, <<"p","j">>}

\* a plain surname, and one that holds a nickname's letters
Surnames == {<<"B","r","o","w","n">>, <<"A","j","a","y","i">>}

\* 'XY Surname'
Undotted(xy, surname) == Upper(xy) \o <<" ">> \o surname

\* 'X.Y. Surname'
Dotted(xy, surname) ==
    <<UpperChar(xy[1]), ".", UpperChar(xy[2]), ".", " ">> \o surname

NicknameNames ==
    UNION {{Undotted(xy, surname), Dotted(xy, surname)} : xy \in Nicknames, surname \in Surnames}

\* a name that is only a suffix: not empty, normalized to the empty string
Str_Jr == <<"J","r",".">>

SuffixOnlyNames == {Str_Jr}

PlayerNames == {r.full_name : r \in PlayerRecords}

AdpNames == {r.name : r \in AdpRecords}

RawTeams == {r.team : r \in PlayerRecords \cup AdpRecords}

RawPositions == {r.position : r \in PlayerRecords \cup AdpRecords}

\* the values of the normalizers and of the scorer on the strings of the
\* records, computed once: sets of <<argument, value>>
NameTable ==
    {<<s, normalize_name(s)>> : s \in PlayerNames \cup AdpNames \cup NicknameNames \cup SuffixOnlyNames}

TeamTable ==
    {<<s, normalize_team(s)>> : s \in RawTeams \cup {normalize_team(x) : x \in RawTeams}}

PositionTable ==
    {<<s, normalize_position(s)>> :
        s \in RawPositions \cup {normalize_position(x) : x \in RawPositions}}

SimilarityTable ==
    {<<pair, calculate_name_similarity(pair[1], pair[2])>> : pair \in (PlayerNames \cup SuffixOnlyNames) \X AdpNames}

TableValue(table, x) == (CHOOSE row \in table : row[1] = x)[2]

\* self.normalize_name(s)
NameMemo(s) == TableValue(NameTable, s)

\* self.normalize_team(s)
TeamMemo(s) == TableValue(TeamTable, s)

\* self.normalize_position(s)
PositionMemo(s) == TableValue(PositionTable, s)

\* self.calculate_name_similarity(name1, name2)
SimilarityMemo(name1, name2) == TableValue(SimilarityTable, <<name1, name2>>)

\* without the `norm1 != ""` test
teams_match_allow_empty(team1, team2) == TeamMemo(team1) = TeamMemo(team2)

teams_match(team1, team2) ==
    LET norm1 == TeamMemo(team1)
        norm2 == TeamMemo(team2)
    IN  norm1 = norm2 /\ norm1 # <<>>

positions_match(pos1, pos2) ==
    LET norm1 == PositionMemo(pos1)
        norm2 == PositionMemo(pos2)
    IN  norm1 = norm2 /\ norm1 # <<>>


-----------------------------------------------------------------------------
(* Scorer harness: inputs and action *)

SimAlphabet == {"a", "b", " ", "."}

\* the names the scorer is tried on: every short string, and the names of the
\* identity records
SimInputs ==
    UNION {[1..n -> SimAlphabet] : n \in 0..MaxSimLen} \cup PlayerNames \cup AdpNames

\* calculate_name_similarity(name1, name2)
ApplySimilarity ==
    /\ sim_pc = 0
    /\ sim_score' = calculate_name_similarity(sim_name1, sim_name2)
    /\ sim_pc' = 1
    /\ UNCHANGED <<sim_name1, sim_name2>>
    /\ UNCHANGED outsideSim

-----------------------------------------------------------------------------
(* Match Engine: the matching part of generate_integrated_database *)

\* a dict rebuilt with the one key
DictOnly(d, k, v) == [x \in {k} |-> v]

\* d[k] = v on a dict
DictSet(d, k, v) == [x \in DOMAIN d \cup {k} |-> IF x = k THEN v ELSE d[x]]

Min(S) == CHOOSE x \in S : \A y \in S : x <= y

\* the orders a set of ids can be iterated in
Orders(S) ==
    {f \in [1..Cardinality(S) -> S] : \A i, j \in 1..Cardinality(S) : f[i] = f[j] => i = j}

RecordSeqs(records, n) == UNION {[1..k -> records] : k \in 0..n}

Link(aid, type, conf) ==
    [adp_id |-> aid, adp_player |-> adp_data[aid], match_type |-> type, confidence |-> conf]

\* the test of strategy 1 on one (sleeper, adp) pair
Strategy1Test(sid, aid) ==
    LET sleeper_name == NameMemo(players[sid].full_name)
        sleeper_team == TeamMemo(players[sid].team)
        sleeper_pos == PositionMemo(players[sid].position)
        adp_name == NameMemo(adp_data[aid].name)
        adp_team == TeamMemo(adp_data[aid].team)
        adp_pos == PositionMemo(adp_data[aid].position)
    IN  /\ sleeper_name = adp_name
        /\ teams_match(sleeper_team, adp_team)
        /\ positions_match(sleeper_pos, adp_pos)

\* the test of strategy 2 on one (sleeper, adp) pair
Strategy2Test(sid, aid) ==
    LET sleeper_name == NameMemo(players[sid].full_name)
        sleeper_pos == PositionMemo(players[sid].position)
        adp_name == NameMemo(adp_data[aid].name)
        adp_pos == PositionMemo(adp_data[aid].position)
    IN  sleeper_name = adp_name /\ positions_match(sleeper_pos, adp_pos)

\* without the `if adp_id in unmatched_adp` test
Strategy1HitsAnyCandidate(sid) == {aid \in DOMAIN adp_data : Strategy1Test(sid, aid)}

\* a strategy 1 that compares the teams as they are spelled in the records
Strategy1HitsSameSpelling(sid) ==
    {aid \in unmatched_adp :
        Strategy1Test(sid, aid) /\ players[sid].team = adp_data[aid].team}

\* strategy 1: the still unmatched candidates that pass the test
Strategy1Hits(sid) == {aid \in unmatched_adp : Strategy1Test(sid, aid)}

\* `for adp_id, adp_player in adp_data.items()` ... `break`: the first hit in
\* the dict's order
Strategy1Pick(hits) == Min(hits)

\* without the `if not sleeper_name: continue` test
Strategy2HitsNoNameCheck(sid) == {aid \in unmatched_adp : Strategy2Test(sid, aid)}

\* strategy 2: a sleeper record without a name is skipped; otherwise the
\* still unmatched candidates that pass the test
Strategy2Hits(sid) ==
    IF NameMemo(players[sid].full_name) = <<>> THEN {}
    ELSE {aid \in unmatched_adp : Strategy2Test(sid, aid)}

\* a scan that looks at one candidate only, the first of the unmatched ones
Strategy3PoolFirstCandidate(sid) ==
    {aid \in unmatched_adp :
        /\ aid = Min(unmatched_adp)
        /\ positions_match(PositionMemo(players[sid].position),
                           PositionMemo(adp_data[aid].position))}

\* strategy 3: the position filter and the score of one (sleeper, adp) pair
Strategy3Pool(sid) ==
    {aid \in unmatched_adp :
        positions_match(PositionMemo(players[sid].position),
                        PositionMemo(adp_data[aid].position))}

Similarity(sid, aid) == SimilarityMemo(players[sid].full_name, adp_data[aid].name)

\* the fuzzy acceptance threshold, 0.75
FuzzyThreshold == <<3, 4>>

\* similarity > 0.75
Strategy3AcceptsStrict(sid, aid) == ScoreGt(Similarity(sid, aid), FuzzyThreshold)

\* similarity >= 0.75
Strategy3Accepts(sid, aid) == ScoreGeq(Similarity(sid, aid), FuzzyThreshold)

\* a scan that ends on any accepted candidate, not on a best one
Strategy3AnyAccepted(sid) ==
    IF players[sid].full_name = <<>> THEN {}
    ELSE {aid \in Strategy3Pool(sid) : Strategy3Accepts(sid, aid)}

\* the candidates the scan of strategy 3 can end on: none for a sleeper record
\* without a name; otherwise the accepted ones that no accepted one beats
\* (similarity > best_score keeps the first of them the scan meets)
Strategy3Best(sid) ==
    LET accepted == {aid \in Strategy3Pool(sid) : Strategy3Accepts(sid, aid)}
    IN  IF players[sid].full_name = <<>> THEN {}
        ELSE {aid \in accepted :
                 \A other \in accepted :
                     ~ScoreGt(Similarity(sid, other), Similarity(sid, aid))}

\* lines 536-538, with the collections the pass loaded
StartMatching ==
    /\ players \in RecordSeqs(PlayerRecords, MaxPlayers)
    /\ adp_data \in RecordSeqs(AdpRecords, MaxAdp)
    /\ matches = <<>>
    /\ unmatched_sleeper = 1..Len(players)
    /\ unmatched_adp = 1..Len(adp_data)
    /\ strategy1_matches = 0
    /\ strategy2_matches = 0
    /\ strategy3_matches = 0
    /\ pc = "strategy1"
    /\ s1_next = 1
    /\ set_order = <<>>
    /\ todo = <<>>

\* one iteration of `for sleeper_id, sleeper_player in players.items()`
Strategy1Step ==
    /\ pc = "strategy1"
    /\ s1_next <= Len(players)
    /\ LET sid == s1_next
           hits == Strategy1Hits(sid)
           aid == Strategy1Pick(hits)
       IN  IF hits # {}
           THEN /\ matches' = DictSet(matches, sid, Link(aid, "exact_name_team_position", <<1, 1>>))
                /\ unmatched_sleeper' = unmatched_sleeper \ {sid}
                /\ unmatched_adp' = unmatched_adp \ {aid}
                /\ strategy1_matches' = strategy1_matches + 1
           ELSE UNCHANGED <<matches, unmatched_sleeper, unmatched_adp, strategy1_matches>>
    /\ s1_next' = s1_next + 1
    /\ UNCHANGED <<inputVars, strategy2_matches, strategy3_matches, pc, set_order, todo>>
    /\ UNCHANGED outsideMatch

\* `for sleeper_id in list(unmatched_sleeper)` of strategy 2 is entered: the
\* snapshot is in the set's iteration order, which the hashes decide
BeginStrategy2 ==
    /\ pc = "strategy1"
    /\ s1_next > Len(players)
    /\ set_order' \in Orders(unmatched_sleeper)
    /\ todo' = set_order'
    /\ pc' = "strategy2"
    /\ UNCHANGED <<inputVars, matches, unmatched_sleeper, unmatched_adp, strategy1_matches,
                   strategy2_matches, strategy3_matches, s1_next>>
    /\ UNCHANGED outsideMatch

\* one iteration of the loop of strategy 2; the inner scan of
\* list(unmatched_adp) stops at the first hit in the set's iteration order
Strategy2Step ==
    /\ pc = "strategy2"
    /\ todo # <<>>
    /\ LET sid == Head(todo)
           hits == Strategy2Hits(sid)
       IN  IF hits # {}
           THEN \E aid \in hits :
                    /\ matches' = DictSet(matches, sid, Link(aid, "exact_name_position", <<9, 10>>))
                    /\ unmatched_sleeper' = unmatched_sleeper \ {sid}
                    /\ unmatched_adp' = unmatched_adp \ {aid}
                    /\ strategy2_matches' = strategy2_matches + 1
           ELSE UNCHANGED <<matches, unmatched_sleeper, unmatched_adp, strategy2_matches>>
    /\ todo' = Tail(todo)
    /\ UNCHANGED <<inputVars, strategy1_matches, strategy3_matches, pc, s1_next, set_order>>
    /\ UNCHANGED outsideMatch

\* a loop over the snapshot strategy 2 took, linked primaries included
Strategy3TodoAll == set_order

\* list(unmatched_sleeper) at the start of strategy 3: the ids still in the
\* set, in the set's iteration order
Strategy3Todo ==
    LET StillUnmatched(sid) == sid \in unmatched_sleeper
    IN  SelectSeq(set_order, StillUnmatched)

\* `for sleeper_id in list(unmatched_sleeper)` of strategy 3 is entered: the
\* ids still in the set, in the same iteration order
BeginStrategy3 ==
    /\ pc = "strategy2"
    /\ todo = <<>>
    /\ todo' = Strategy3Todo
    /\ pc' = "strategy3"
    /\ UNCHANGED <<inputVars, matches, unmatched_sleeper, unmatched_adp, strategy1_matches,
                   strategy2_matches, strategy3_matches, s1_next, set_order>>
    /\ UNCHANGED outsideMatch

\* an iteration that moves on only after a link
Strategy3StepNoAdvance ==
    /\ pc = "strategy3"
    /\ todo # <<>>
    /\ LET sid == Head(todo)
           best == Strategy3Best(sid)
       IN  IF best # {}
           THEN /\ \E aid \in best :
                      /\ matches' = DictSet(matches, sid,
                                            Link(aid, "fuzzy_name_position", Similarity(sid, aid)))
                      /\ unmatched_sleeper' = unmatched_sleeper \ {sid}
                      /\ unmatched_adp' = unmatched_adp \ {aid}
                      /\ strategy3_matches' = strategy3_matches + 1
                /\ todo' = Tail(todo)
           ELSE UNCHANGED <<matches, unmatched_sleeper, unmatched_adp, strategy3_matches, todo>>
    /\ UNCHANGED <<inputVars, strategy1_matches, strategy2_matches, pc, s1_next, set_order>>
    /\ UNCHANGED outsideMatch

\* one iteration of the loop of strategy 3
Strategy3Step ==
    /\ pc = "strategy3"
    /\ todo # <<>>
    /\ LET sid == Head(todo)
           best == Strategy3Best(sid)
       IN  IF best # {}
           THEN \E aid \in best :
                    /\ matches' = DictSet(matches, sid,
                                          Link(aid, "fuzzy_name_position", Similarity(sid, aid)))
                    /\ unmatched_sleeper' = unmatched_sleeper \ {sid}
                    /\ unmatched_adp' = unmatched_adp \ {aid}
                    /\ strategy3_matches' = strategy3_matches + 1
           ELSE UNCHANGED <<matches, unmatched_sleeper, unmatched_adp, strategy3_matches>>
    /\ todo' = Tail(todo)
    /\ UNCHANGED <<inputVars, strategy1_matches, strategy2_matches, pc, s1_next, set_order>>
    /\ UNCHANGED outsideMatch

\* the loop of strategy 3 is left
FinishMatching ==
    /\ pc = "strategy3"
    /\ todo = <<>>
    /\ pc' = "matched"
    /\ UNCHANGED <<inputVars, matches, unmatched_sleeper, unmatched_adp, strategy1_matches,
                   strategy2_matches, strategy3_matches, s1_next, set_order, todo>>
    /\ UNCHANGED outsideMatch

NextMatch ==
    \/ Strategy1Step
    \/ BeginStrategy2
    \/ Strategy2Step
    \/ BeginStrategy3
    \/ Strategy3Step
    \/ FinishMatching

\* total / games cut off at the hundredth below
Round2Truncate(total, games) == {total \div games}

\* round(total / games, 2) on hundredths: the nearest hundredth; on an exact
\* half the float quotient decides, so either neighbour
Round2(total, games) ==
    LET q == total \div games
        r == total % games
    IN  IF 2 * r < games THEN {q}
        ELSE IF 2 * r > games THEN {q + 1}
        ELSE {q, q + 1}

\* the update made on player_info itself
player_info_updated_in_place(sid) ==
    IF sid \in DOMAIN matches
    THEN [k \in DOMAIN players[sid] \cup {"adp_data", "match_confidence", "match_type"} |->
             CASE k = "adp_data" -> <<>>
               [] k = "match_confidence" -> matches[sid].confidence
               [] k = "match_type" -> matches[sid].match_type
               [] OTHER -> players[sid][k]]
    ELSE players[sid]

\* the record behind player_info after `integrated_player.update({...})`: the
\* update is made on the dict the literal built, which only refers to
\* player_info under 'sleeper_data'
player_info_after_update(sid) == players[sid]

\* the entry as the dict literal builds it, without the update for a link
integrated_player_no_update(sid) ==
    [sleeper_id |-> sid,
     name |-> players[sid].full_name,
     position |-> players[sid].position,
     team |-> players[sid].team,
     sleeper_data |-> players[sid],
     adp_data |-> <<>>,
     ffc_matched |-> sid \in DOMAIN matches,
     match_confidence |-> <<0, 1>>,
     match_type |-> "None"]

\* the entry of the integrated database for one sleeper record (without its
\* timestamp); the identity records carry no 'adp_data' of their own, so
\* matched_adp.get('adp_data', {}) is {}
integrated_player(sid) ==
    [sleeper_id |-> sid,
     name |-> players[sid].full_name,
     position |-> players[sid].position,
     team |-> players[sid].team,
     sleeper_data |-> players[sid],
     adp_data |-> <<>>,
     ffc_matched |-> sid \in DOMAIN matches,
     match_confidence |-> IF sid \in DOMAIN matches THEN matches[sid].confidence ELSE <<0, 1>>,
     match_type |-> IF sid \in DOMAIN matches THEN matches[sid].match_type ELSE "None"]

\* round(match_rate, 2) in hundredths of a percent
MatchRates ==
    IF Len(players) > 0 THEN Round2(10000 * Cardinality(DOMAIN matches), Len(players)) ELSE {0}

\* lines 640-688: the meta block and one entry per sleeper record
IntegratePlayers ==
    /\ pc = "matched"
    /\ \E rate \in MatchRates :
          integrated' =
              [meta |-> [total_players |-> Len(players),
                         adp_players |-> Len(adp_data),
                         matched_players |-> Cardinality(DOMAIN matches),
                         match_rate |-> rate,
                         matching_strategies |->
                             [exact_name_team_position |-> strategy1_matches,
                              exact_name_position |-> strategy2_matches,
                              fuzzy_name_position |-> strategy3_matches]],
               players |-> [sid \in DOMAIN players |-> integrated_player(sid)]]
    /\ players' = [sid \in DOMAIN players |-> player_info_after_update(sid)]
    /\ pc' = "integrated"
    /\ UNCHANGED <<adp_data, matches, unmatched_sleeper, unmatched_adp, strategy1_matches,
                   strategy2_matches, strategy3_matches, s1_next, set_order, todo>>
    /\ UNCHANGED <<adp_order, first_matches, run>>
    /\ UNCHANGED <<normVars, aggVars, simVars, saveVars, seasonVars>>

\* matching, then the integrated database
NextIntegrate ==
    \/ Strategy1Step
    \/ BeginStrategy2
    \/ Strategy2Step
    \/ BeginStrategy3
    \/ Strategy3Step
    \/ FinishMatching
    \/ IntegratePlayers

\* the first element of a set in a given iteration order
FirstInOrder(order, S) == order[Min({i \in DOMAIN order : order[i] \in S})]

\* strategy 2 when list(unmatched_adp) comes in the order adp_order: the inner
\* scan breaks on the first hit
OrderedStrategy2Step ==
    /\ Strategy2Step
    /\ LET sid == Head(todo)
           hits == Strategy2Hits(sid)
       IN  hits # {} => matches'[sid].adp_id = FirstInOrder(adp_order, hits)

\* strategy 3 when list(unmatched_adp) comes in the order adp_order:
\* `similarity > best_score` keeps the first of the best candidates
OrderedStrategy3Step ==
    /\ Strategy3Step
    /\ LET sid == Head(todo)
           best == Strategy3Best(sid)
       IN  best # {} => matches'[sid].adp_id = FirstInOrder(adp_order, best)

\* generate_integrated_database is called again on the same files: lines
\* 536-538 once more, the collections and the candidate order as before
Rerun ==
    /\ pc = "matched"
    /\ run = 1
    /\ first_matches' = matches
    /\ run' = 2
    /\ matches' = <<>>
    /\ unmatched_sleeper' = 1..Len(players)
    /\ unmatched_adp' = 1..Len(adp_data)
    /\ strategy1_matches' = 0
    /\ strategy2_matches' = 0
    /\ strategy3_matches' = 0
    /\ pc' = "strategy1"
    /\ s1_next' = 1
    /\ set_order' = <<>>
    /\ todo' = <<>>
    /\ UNCHANGED <<inputVars, adp_order, integrated>>
    /\ UNCHANGED <<normVars, aggVars, simVars, saveVars, seasonVars>>

NextRerun ==
    \/ Strategy1Step
    \/ BeginStrategy2
    \/ OrderedStrategy2Step
    \/ BeginStrategy3
    \/ OrderedStrategy3Step
    \/ FinishMatching
    \/ Rerun

-----------------------------------------------------------------------------
(* Season aggregation: scripts/collect_nfl_performance.py *)

\* Python's None where a statistic is missing; a present value v is Some(v)
None == <<>>

Some(v) == <<v>>

\* the categories update_season_totals adds up, in the order of its loops
Categories == <<"passing", "rushing", "receiving", "fantasy">>

\* the statistics process_week_data writes in each category, in dict order
StatKeys(category) ==
    CASE category = "passing" ->
           <<"completions", "attempts", "yards", "touchdowns", "interceptions">>
      [] category = "rushing" -> <<"carries", "yards", "touchdowns">>
      [] category = "receiving" -> <<"targets", "receptions", "yards", "touchdowns">>
      [] category = "fantasy" -> <<"points_standard", "points_ppr", "points_half_ppr">>

\* a dict with the given keys and, position by position, the given values
Dict(keys, values) ==
    [k \in {keys[i] : i \in 1..Len(keys)} |->
        values[CHOOSE i \in 1..Len(keys) : keys[i] = k]]

\* the record process_week_data builds for one player in one week (the fields
\* the aggregation reads)
player_performance(name, position, week, passing, rushing, receiving, fantasy) ==
    [player_name |-> name,
     position |-> position,
     week |-> week,
     stats |-> [passing |-> Dict(StatKeys("passing"), passing),
                rushing |-> Dict(StatKeys("rushing"), rushing),
                receiving |-> Dict(StatKeys("receiving"), receiving),
                fantasy |-> Dict(StatKeys("fantasy"), fantasy)]]

\* a new entry that already holds the first period's values
NewTotalsFromFirst(perf) ==
    [player_name |-> perf.player_name,
     position |-> perf.position,
     games_played |-> 0,
     season_totals |->
        [c \in {"passing", "rushing", "receiving", "fantasy"} |->
            [k \in DOMAIN perf.stats[c] |->
                IF perf.stats[c][k] = None THEN 0 ELSE perf.stats[c][k][1]]],
     metrics |-> [average_per_game |-> 0,
                  average_per_game_half_ppr |-> 0,
                  average_per_game_standard |-> 0]]

\* the entry update_season_totals creates for an identity it has not seen
NewTotals(perf) ==
    [player_name |-> perf.player_name,
     position |-> perf.position,
     games_played |-> 0,
     season_totals |->
        [c \in {"passing", "rushing", "receiving", "fantasy"} |->
            [k \in DOMAIN perf.stats[c] |-> 0]],
     metrics |-> [average_per_game |-> 0,
                  average_per_game_half_ppr |-> 0,
                  average_per_game_standard |-> 0]]

\* `+= value`, or `+= 0` for None
ValueOrZero(value) == IF value = None THEN 0 ELSE value[1]

\* where player_performance['stats'][category] finds no such category
KeyError == "KeyError"

\* every stat name a period record or an entry can hold, in dict order (a
\* name process_week_data does not write comes after those it writes)
AllStatKeys(category) ==
    IF category = "rushing" THEN StatKeys(category) \o <<"fumbles">> ELSE StatKeys(category)

RECURSIVE StatItemsFrom(_, _)
StatItemsFrom(perf, c) ==
    IF c > Len(Categories) THEN <<>>
    ELSE LET category == Categories[c]
             present(k) == k \in DOMAIN perf.stats[category]
             keys == SelectSeq(AllStatKeys(category), present)
         IN  IF category \notin DOMAIN perf.stats THEN << <<category, KeyError>> >>
             ELSE [i \in 1..Len(keys) |-> <<category, keys[i]>>]
                      \o StatItemsFrom(perf, c + 1)

\* every (category, stat) of the period record, in the order the loops visit
\* them, up to a category the record does not have
StatItems(perf) == StatItemsFrom(perf, 1)

\* the loops with `= value` in place of `+= value`
RECURSIVE AggregateAssignFrom(_, _, _, _)
AggregateAssignFrom(totals, perf, items, i) ==
    IF i > Len(items) THEN [totals |-> totals, raised |-> FALSE]
    ELSE LET category == items[i][1]
             stat == items[i][2]
         IN  IF stat = KeyError \/ stat \notin DOMAIN totals.season_totals[category]
             THEN [totals |-> totals, raised |-> TRUE]
             ELSE AggregateAssignFrom(
                      [totals EXCEPT !.season_totals[category][stat] =
                          ValueOrZero(perf.stats[category][stat])],
                      perf, items, i + 1)

\* the two aggregation loops from item i on; a category the record does not
\* have or a stat the entry does not hold raises KeyError and leaves the
\* additions made so far
RECURSIVE AggregateFrom(_, _, _, _)
AggregateFrom(totals, perf, items, i) ==
    IF i > Len(items) THEN [totals |-> totals, raised |-> FALSE]
    ELSE LET category == items[i][1]
             stat == items[i][2]
         IN  IF stat = KeyError \/ stat \notin DOMAIN totals.season_totals[category]
             THEN [totals |-> totals, raised |-> TRUE]
             ELSE AggregateFrom(
                      [totals EXCEPT !.season_totals[category][stat] =
                          @ + ValueOrZero(perf.stats[category][stat])],
                      perf, items, i + 1)

\* totals['season_totals']['fantasy'].get(stat, 0.0)
FantasyGet(totals, stat) ==
    IF stat \in DOMAIN totals.season_totals.fantasy
    THEN totals.season_totals.fantasy[stat]
    ELSE 0

\* the metrics block the update can write
MetricsOptions(totals) ==
    IF totals.games_played > 0
    THEN {[average_per_game |-> a,
           average_per_game_half_ppr |-> h,
           average_per_game_standard |-> s] :
              a \in Round2(FantasyGet(totals, "points_ppr"), totals.games_played),
              h \in Round2(FantasyGet(totals, "points_half_ppr"), totals.games_played),
              s \in Round2(FantasyGet(totals, "points_standard"), totals.games_played)}
    ELSE {totals.metrics}

\* update_season_totals without the `if player_key not in self.totals_data`
\* test: the entry is created anew on every call
update_season_totals_recreating(td, player_key, perf) ==
    LET td0 == DictSet(td, player_key, NewTotals(perf))
        counted == [td0[player_key] EXCEPT !.games_played = @ + 1]
        agg == AggregateFrom(counted, perf, StatItems(perf), 1)
    IN  IF agg.raised
        THEN {[totals_data |-> DictSet(td0, player_key, agg.totals), raised |-> TRUE]}
        ELSE {[totals_data |->
                  DictSet(td0, player_key, [agg.totals EXCEPT !.metrics = m]),
               raised |-> FALSE] : m \in MetricsOptions(agg.totals)}

\* update_season_totals on the store td: the stores it can leave, each with
\* whether the call raised; the dict literal of a new entry raises KeyError
\* before anything is stored when the record lacks a category
update_season_totals(td, player_key, perf) ==
    LET td0 == IF player_key \in DOMAIN td THEN td
               ELSE DictSet(td, player_key, NewTotals(perf))
        counted == [td0[player_key] EXCEPT !.games_played = @ + 1]
        agg == AggregateFrom(counted, perf, StatItems(perf), 1)
    IN  IF player_key \notin DOMAIN td
           /\ \E c \in 1..Len(Categories) : Categories[c] \notin DOMAIN perf.stats
        THEN {[totals_data |-> td, raised |-> TRUE]}
        ELSE IF agg.raised
        THEN {[totals_data |-> DictSet(td0, player_key, agg.totals), raised |-> TRUE]}
        ELSE {[totals_data |->
                  DictSet(td0, player_key, [agg.totals EXCEPT !.metrics = m]),
               raised |-> FALSE] : m \in MetricsOptions(agg.totals)}

\* for player_key, player_performance in week_data[week_key].items(): the
\* updates from the i-th key on; an exception ends the loop
RECURSIVE UpdateAll(_, _, _, _)
UpdateAll(td, week_players, order, i) ==
    IF i > Len(order) THEN {[totals_data |-> td, raised |-> FALSE]}
    ELSE UNION {IF r.raised THEN {r}
                ELSE UpdateAll(r.totals_data, week_players, order, i + 1) :
                    r \in update_season_totals(td, order[i], week_players[order[i]])}

\* the player keys of the run, in the order of their rows: a sleeper_id where the
\* row has one, the player_name where it has none
PlayerKeys == <<"6794", "Tee Higgins">>

KeyName(key) == IF key = "6794" THEN "Justin Jefferson" ELSE key

\* the statistics of one player in one week: passing, rushing, receiving,
\* fantasy (points in hundredths); None where the feed has no value
StatLines ==
    << << <<None, None, None, None, None>>, <<None, None, None>>,
          <<Some(7), Some(5), Some(61), Some(1)>>,
          <<Some(1210), Some(1710), Some(1460)>> >>,
       << <<Some(1), Some(2), Some(-3), Some(0), Some(1)>>, <<Some(2), Some(-4), Some(0)>>,
          <<Some(3), Some(0), Some(0), Some(0)>>,
          <<None, Some(-211), None>> >> >>

Weeks == 1..MaxWeek

\* the period records process_week_data can build for a key in a week
Performances(key, week) ==
    {player_performance(KeyName(key), "WR", week, StatLines[l][1], StatLines[l][2],
                        StatLines[l][3], StatLines[l][4]) : l \in 1..Len(StatLines)}

\* the statistics the feed holds for a key: the same line every week
FeedLine(key) == StatLines[CHOOSE i \in 1..Len(PlayerKeys) : PlayerKeys[i] = key]

\* the record process_week_data builds from the feed for a key in a week
FeedPerformance(key, week) ==
    LET l == FeedLine(key)
    IN  player_performance(KeyName(key), "WR", week, l[1], l[2], l[3], l[4])

\* the week_data[week_key] dicts process_week_data can return for a week: the
\* fantasy-relevant rows of the week are any of the players
WeekPlayers(week) ==
    {[k \in keys |-> FeedPerformance(k, week)] :
        keys \in SUBSET {PlayerKeys[i] : i \in 1..Len(PlayerKeys)}}

\* the keys of a week_data[week_key] dict, in dict order
KeyOrder(week_players) ==
    LET present(k) == k \in DOMAIN week_players IN SelectSeq(PlayerKeys, present)

\* what a failed open(..., 'w') / json.dump leaves in a file that held `old`:
\* the old content when the file was never opened, nothing loadable when the
\* dump stopped half way
FailedWrite(old) == {old, <<>>}

\* update_season_totals(player_key, player_performance), called directly
UpdateSeasonTotals ==
    /\ Len(applied) < MaxUpdates
    /\ \E key \in {PlayerKeys[i] : i \in 1..Len(PlayerKeys)}, week \in Weeks :
          \E perf \in Performances(key, week) :
             \E r \in update_season_totals(totals_data, key, perf) :
                /\ totals_data' = r.totals_data
                /\ raised' = r.raised
                /\ applied' = Append(applied, <<key, perf>>)
    /\ UNCHANGED <<performance_data, performance_file, totals_file, collect_results>>
    /\ UNCHANGED outsideAgg

\* the record without one stat of a category
WithoutStat(perf, category, stat) ==
    [perf EXCEPT !.stats[category] =
        [k \in DOMAIN perf.stats[category] \ {stat} |-> perf.stats[category][k]]]

\* the record without a category
WithoutCategory(perf, category) ==
    [perf EXCEPT !.stats = [c \in DOMAIN perf.stats \ {category} |-> perf.stats[c]]]

\* the record with one more stat in a category
WithStat(perf, category, stat, value) ==
    [perf EXCEPT !.stats[category] = DictSet(perf.stats[category], stat, value)]

\* the period records a caller can pass: those process_week_data builds, and
\* the same with a stat left out, a category left out, or a stat added
ShapedPerformances(key, week) ==
    UNION {{perf,
            WithoutStat(perf, "receiving", "targets"),
            WithoutCategory(perf, "rushing"),
            WithStat(perf, "rushing", "fumbles", Some(1))} : perf \in Performances(key, week)}

\* update_season_totals(player_key, player_performance), called directly with
\* a record of any shape
UpdateSeasonTotalsAnyShape ==
    /\ Len(applied) < MaxUpdates
    /\ \E key \in {PlayerKeys[i] : i \in 1..Len(PlayerKeys)}, week \in Weeks :
          \E perf \in ShapedPerformances(key, week) :
             \E r \in update_season_totals(totals_data, key, perf) :
                /\ totals_data' = r.totals_data
                /\ raised' = r.raised
                /\ applied' = Append(applied, <<key, perf>>)
    /\ UNCHANGED <<performance_data, performance_file, totals_file, collect_results>>
    /\ UNCHANGED outsideAgg

\* the records a key can come with over a season: the one the feed builds, and
\* the same under the name and position a later roster gives the player
RelabelledPerformances(key, week) ==
    {FeedPerformance(key, week),
     [FeedPerformance(key, week) EXCEPT
         !.player_name = IF key = "6794" THEN "J. Jefferson" ELSE "T. Higgins",
         !.position = "TE"]}

\* update_season_totals(player_key, player_performance), called directly with
\* a record under either label
UpdateSeasonTotalsAnyLabel ==
    /\ Len(applied) < MaxUpdates
    /\ \E key \in {PlayerKeys[i] : i \in 1..Len(PlayerKeys)}, week \in Weeks :
          \E perf \in RelabelledPerformances(key, week) :
             \E r \in update_season_totals(totals_data, key, perf) :
                /\ totals_data' = r.totals_data
                /\ raised' = r.raised
                /\ applied' = Append(applied, <<key, perf>>)
    /\ UNCHANGED <<performance_data, performance_file, totals_file, collect_results>>
    /\ UNCHANGED outsideAgg

\* collect_week(week) where process_week_data returns {} or raises: False
NoData ==
    /\ collect_results' = Append(collect_results, FALSE)
    /\ UNCHANGED <<performance_data, totals_data, performance_file, totals_file, applied, raised>>

CollectWeekNoData ==
    /\ Len(collect_results) < MaxCollects
    /\ NoData
    /\ UNCHANGED outsideAgg

\* collect_week(week) where update_performance_data cannot write its file:
\* the week is merged in memory, the exception is re-raised, False
PerformanceWriteFails(week) ==
    /\ \E week_players \in WeekPlayers(week) :
          /\ performance_data' = DictSet(performance_data, week, week_players)
          /\ performance_file' \in FailedWrite(performance_file)
    /\ collect_results' = Append(collect_results, FALSE)
    /\ UNCHANGED <<totals_data, totals_file, applied, raised>>

CollectWeekPerformanceWriteFails ==
    /\ Len(collect_results) < MaxCollects
    /\ \E week \in Weeks : PerformanceWriteFails(week)
    /\ UNCHANGED outsideAgg

\* collect_week(week) where save_totals_data cannot write its file: both stores
\* are updated in memory, the performance file is written, False
TotalsWriteFails(week) ==
    /\ \E week_players \in WeekPlayers(week) :
          /\ performance_data' = DictSet(performance_data, week, week_players)
          /\ performance_file' = performance_data'
          /\ \E r \in UpdateAll(totals_data, week_players, KeyOrder(week_players), 1) :
                /\ ~r.raised
                /\ totals_data' = r.totals_data
          /\ totals_file' \in FailedWrite(totals_file)
    /\ collect_results' = Append(collect_results, FALSE)
    /\ UNCHANGED <<applied, raised>>

CollectWeekTotalsWriteFails ==
    /\ Len(collect_results) < MaxCollects
    /\ \E week \in Weeks : TotalsWriteFails(week)
    /\ UNCHANGED outsideAgg

\* collect_week(week) to the end of its try block: True
Collected(week) ==
    /\ \E week_players \in WeekPlayers(week) :
          /\ performance_data' = DictSet(performance_data, week, week_players)
          /\ performance_file' = performance_data'
          /\ \E r \in UpdateAll(totals_data, week_players, KeyOrder(week_players), 1) :
                /\ ~r.raised
                /\ totals_data' = r.totals_data
                /\ totals_file' = r.totals_data
    /\ collect_results' = Append(collect_results, TRUE)
    /\ UNCHANGED <<applied, raised>>

CollectWeek ==
    /\ Len(collect_results) < MaxCollects
    /\ \E week \in Weeks : Collected(week)
    /\ UNCHANGED outsideAgg

NextCollect ==
    \/ CollectWeek
    \/ CollectWeekNoData
    \/ CollectWeekPerformanceWriteFails
    \/ CollectWeekTotalsWriteFails

\* one more call on the collector, direct or through collect_week
CallsLeft == Len(applied) + Len(collect_results) < MaxCalls

NextStore ==
    \/ CallsLeft /\ UpdateSeasonTotals
    \/ CallsLeft /\ CollectWeek
    \/ CallsLeft /\ CollectWeekNoData
    \/ CallsLeft /\ CollectWeekPerformanceWriteFails
    \/ CallsLeft /\ CollectWeekTotalsWriteFails

-----------------------------------------------------------------------------
(* collect_season: collect_week for each week of a range *)

\* collect_week(week): any of its outcomes
collect_week(week) ==
    \/ Collected(week)
    \/ NoData
    \/ PerformanceWriteFails(week)
    \/ TotalsWriteFails(week)

\* the week the for loop is at
LoopWeek == start_week + Len(attempted)

\* one iteration of the loop where a week that returns False ends the loop
CollectSeasonWeekAborting ==
    /\ season_pc = "loop"
    /\ LoopWeek <= end_week
    /\ collect_week(LoopWeek)
    /\ attempted' = Append(attempted, LoopWeek)
    /\ success_count' =
          IF collect_results'[Len(collect_results')] THEN success_count + 1 ELSE success_count
    /\ season_pc' = IF collect_results'[Len(collect_results')] THEN "loop" ELSE "done"
    /\ UNCHANGED <<start_week, end_week>>
    /\ UNCHANGED outsideSeason

\* one iteration of `for week in range(start_week, end_week + 1)`:
\* collect_week(week), counted when it returns True
CollectSeasonWeek ==
    /\ season_pc = "loop"
    /\ LoopWeek <= end_week
    /\ collect_week(LoopWeek)
    /\ attempted' = Append(attempted, LoopWeek)
    /\ success_count' =
          IF collect_results'[Len(collect_results')] THEN success_count + 1 ELSE success_count
    /\ UNCHANGED <<start_week, end_week, season_pc>>
    /\ UNCHANGED outsideSeason

\* the range is exhausted: the count is reported
CollectSeasonReport ==
    /\ season_pc = "loop"
    /\ LoopWeek > end_week
    /\ season_pc' = "done"
    /\ UNCHANGED <<start_week, end_week, success_count, attempted>>
    /\ UNCHANGED aggVars
    /\ UNCHANGED outsideSeason

NextSeason == CollectSeasonWeek \/ CollectSeasonReport

-----------------------------------------------------------------------------
(* save_performance_data: the consolidated season file *)

\* season_data = {'metadata': {}, 'performances': []}
EmptySeasonData ==
    [metadata |-> [total_performances |-> 0, weeks_covered |-> {}], performances |-> <<>>]

\* a season file that does not exist, one json.load reads, one it cannot read
AbsentSeasonFile == [state |-> "absent", data |-> EmptySeasonData]

SeasonFile(season_data) == [state |-> "readable", data |-> season_data]

UnreadableSeasonFile == [state |-> "unreadable", data |-> EmptySeasonData]

\* the season_data the call starts from: the file where it exists and loads,
\* the empty structure otherwise
LoadSeasonData(file) == IF file.state = "readable" THEN file.data ELSE EmptySeasonData

\* the metadata the call writes over the performances it is about to save
SeasonMetadata(performances) ==
    [total_performances |-> Len(performances),
     weeks_covered |-> {performances[i].week : i \in 1..Len(performances)}]

\* the season_data written when the week's records are appended to everything
\* the file held
save_performance_data_append(season_data, week_performances, week) ==
    LET performances == season_data.performances \o week_performances
    IN  [metadata |-> SeasonMetadata(performances), performances |-> performances]

\* the season_data save_performance_data(performance_data, week) writes for a
\* list: the records of other weeks, then the list
save_performance_data(season_data, week_performances, week) ==
    LET OtherWeek(p) == p.week # week
        performances == SelectSeq(season_data.performances, OtherWeek) \o week_performances
    IN  [metadata |-> SeasonMetadata(performances), performances |-> performances]

\* a performance record of a week: name, week, points in tenths
Performance(player_name, week, fantasy_points) ==
    [player_name |-> player_name, week |-> week, fantasy_points |-> fantasy_points]

\* the lists a week's collection can return, every record carrying the week
PerformanceLists(week) ==
    LET allen == Performance("Josh Allen", week, 214)
        kupp == Performance("Cooper Kupp", week, 235)
        kupp_late == Performance("Cooper Kupp", week, 115)
    IN  {<<>>, <<allen>>, <<allen, kupp>>, <<kupp, allen>>, <<kupp_late>>, <<allen, allen>>}

\* save_performance_data(performance_data, week) to its last line
SavePerformanceData ==
    /\ Len(saves) < MaxSaves
    /\ \E week \in Weeks :
          \E week_performances \in PerformanceLists(week) :
             /\ season_file' =
                   SeasonFile(save_performance_data(LoadSeasonData(season_file),
                                                    week_performances, week))
             /\ saves' = Append(saves, [week |-> week, performance_data |-> week_performances,
                                        returned |-> TRUE])
    /\ UNCHANGED outsideSave

\* save_performance_data(performance_data, week) where a file cannot be
\* written: the call raises, the season file untouched (the snapshot or the
\* open failed) or cut short (the dump failed)
SavePerformanceDataRaises ==
    /\ Len(saves) < MaxSaves
    /\ \E week \in Weeks :
          \E week_performances \in PerformanceLists(week) :
             /\ season_file' \in {season_file, UnreadableSeasonFile}
             /\ saves' = Append(saves, [week |-> week, performance_data |-> week_performances,
                                        returned |-> FALSE])
    /\ UNCHANGED outsideSave

NextSave == SavePerformanceData \/ SavePerformanceDataRaises

-----------------------------------------------------------------------------
(* Specifications *)

\* no collect_season call in progress
SeasonIdle ==
    /\ start_week = 1
    /\ end_week = 0
    /\ success_count = 0
    /\ attempted = <<>>
    /\ season_pc = "idle"

\* no save_performance_data call made, no season file written
SaveIdle ==
    /\ season_file = AbsentSeasonFile
    /\ saves = <<>>

\* a collector constructed where no file exists: both stores start empty
AggIdle ==
    /\ performance_data = <<>>
    /\ totals_data = <<>>
    /\ performance_file = <<>>
    /\ totals_file = <<>>
    /\ collect_results = <<>>
    /\ applied = <<>>
    /\ raised = FALSE

\* no normalizer call in progress
NormIdle ==
    /\ norm_kind = "none"
    /\ norm_in = <<>>
    /\ norm_out1 = <<>>
    /\ norm_out2 = <<>>
    /\ norm_pc = 0

\* no scorer call in progress
SimIdle ==
    /\ sim_name1 = <<>>
    /\ sim_name2 = <<>>
    /\ sim_score = <<0, 1>>
    /\ sim_pc = 0

\* one run of the pass, the candidate order left open
RerunIdle ==
    /\ integrated = <<>>
    /\ adp_order = <<>>
    /\ first_matches = <<>>
    /\ run = 1

\* no resolution pass in progress
MatchIdle ==
    /\ players = <<>>
    /\ adp_data = <<>>
    /\ matches = <<>>
    /\ unmatched_sleeper = {}
    /\ unmatched_adp = {}
    /\ strategy1_matches = 0
    /\ strategy2_matches = 0
    /\ strategy3_matches = 0
    /\ pc = "idle"
    /\ s1_next = 1
    /\ set_order = <<>>
    /\ todo = <<>>

InitNorm ==
    /\ MatchIdle
    /\ RerunIdle
    /\ SimIdle
    /\ SaveIdle
    /\ SeasonIdle
    /\ AggIdle
    /\ norm_kind \in {"name", "team", "position"}
    /\ norm_in \in NormInputs(norm_kind)
    /\ norm_out1 = <<>>
    /\ norm_out2 = <<>>
    /\ norm_pc = 0

NextNorm == ApplyNormalize \/ ReapplyNormalize

\* the normalizers, each applied to an input and to its own output
SpecNorm == InitNorm /\ [][NextNorm]_vars

InitMatch ==
    /\ NormIdle
    /\ AggIdle
    /\ RerunIdle
    /\ SimIdle
    /\ SaveIdle
    /\ SeasonIdle
    /\ StartMatching

\* one resolution pass over every pair of bounded collections
SpecMatch == InitMatch /\ [][NextMatch]_vars

\* lines 536-538 for a sleeper record with an undotted nickname and an ADP
\* record with the dotted one, the same surname, team and position
InitNicknames ==
    /\ NormIdle
    /\ AggIdle
    /\ RerunIdle
    /\ SimIdle
    /\ SaveIdle
    /\ SeasonIdle
    /\ \E xy \in Nicknames, surname \in Surnames, team \in RawTeams, position \in RawPositions :
          /\ players = <<[full_name |-> Undotted(xy, surname), team |-> team,
                          position |-> position]>>
          /\ adp_data = <<[name |-> Dotted(xy, surname), team |-> team,
                           position |-> position]>>
    /\ matches = <<>>
    /\ unmatched_sleeper = {1}
    /\ unmatched_adp = {1}
    /\ strategy1_matches = 0
    /\ strategy2_matches = 0
    /\ strategy3_matches = 0
    /\ pc = "strategy1"
    /\ s1_next = 1
    /\ set_order = <<>>
    /\ todo = <<>>

\* one pass over two records that differ only in the spelling of a nickname
SpecNicknames == InitNicknames /\ [][NextMatch]_vars

\* records that between them are linked by each strategy or by none
SomePlayerRecords ==
    {r \in PlayerRecords :
        r.full_name # <<>> /\ r.position # <<>> /\ (r.full_name = Str_AJ_Brown \/ r.team # <<>>)}

SomeAdpRecords ==
    {r \in AdpRecords :
        r.team # <<>> /\ r.name \in {Str_A_J_Brown, Str_Kam_Wark, Str_Kim_Wark}}

InitSomeRecords ==
    /\ InitMatch
    /\ players \in RecordSeqs(SomePlayerRecords, MaxPlayers)
    /\ adp_data \in RecordSeqs(SomeAdpRecords, MaxAdp)

\* a pass that is never suspended: the code is one sequential function
FairMatch == InitSomeRecords /\ [][NextMatch]_vars /\ WF_vars(NextMatch)

\* sleeper records named by a suffix alone, next to the named ones; ADP
\* records without a name, next to the named ones
SuffixPlayerRecords ==
    {[full_name |-> Str_Jr, team |-> team, position |-> <<"W","R">>] :
        team \in {<<>>, <<"L","A">>}} \cup SomePlayerRecords

SuffixAdpRecords == {r \in AdpRecords : r.name = <<>>} \cup SomeAdpRecords

\* lines 536-538 for collections of those records
InitSuffixNames ==
    /\ NormIdle
    /\ AggIdle
    /\ RerunIdle
    /\ SimIdle
    /\ SaveIdle
    /\ SeasonIdle
    /\ players \in RecordSeqs(SuffixPlayerRecords, MaxPlayers)
    /\ adp_data \in RecordSeqs(SuffixAdpRecords, MaxAdp)
    /\ matches = <<>>
    /\ unmatched_sleeper = 1..Len(players)
    /\ unmatched_adp = 1..Len(adp_data)
    /\ strategy1_matches = 0
    /\ strategy2_matches = 0
    /\ strategy3_matches = 0
    /\ pc = "strategy1"
    /\ s1_next = 1
    /\ set_order = <<>>
    /\ todo = <<>>

\* one pass over records whose names can normalize to the empty string
SpecSuffixNames == InitSuffixNames /\ [][NextMatch]_vars

\* one whole generate_integrated_database call over every pair of bounded
\* collections
SpecIntegrate == InitMatch /\ [][NextIntegrate]_vars

InitRerun ==
    /\ NormIdle
    /\ AggIdle
    /\ StartMatching
    /\ SimIdle
    /\ SaveIdle
    /\ SeasonIdle
    /\ integrated = <<>>
    /\ adp_order \in Orders(DOMAIN adp_data)
    /\ first_matches = <<>>
    /\ run = 1

\* the pass run twice over the same collections, list(unmatched_adp) in the
\* same order both times, list(unmatched_sleeper) in any order each time
SpecRerun == InitRerun /\ [][NextRerun]_vars

InitAgg ==
    /\ NormIdle
    /\ MatchIdle
    /\ RerunIdle
    /\ SimIdle
    /\ SaveIdle
    /\ SeasonIdle
    /\ AggIdle

\* update_season_totals called on period records, from an empty totals store
SpecTotals == InitAgg /\ [][UpdateSeasonTotals]_vars

\* collect_week called week after week, from empty stores
SpecCollect == InitAgg /\ [][NextCollect]_vars

InitSim ==
    /\ SaveIdle
    /\ SeasonIdle
    /\ NormIdle
    /\ MatchIdle
    /\ AggIdle
    /\ RerunIdle
    /\ sim_name1 \in SimInputs
    /\ sim_name2 \in SimInputs
    /\ sim_score = <<0, 1>>
    /\ sim_pc = 0

\* calculate_name_similarity applied to every pair of bounded names
SpecSim == InitSim /\ [][ApplySimilarity]_vars

\* collect_season(start_week, end_week) on a new collector, over a range of at
\* most MaxCollects weeks
InitSeason ==
    /\ NormIdle
    /\ MatchIdle
    /\ AggIdle
    /\ RerunIdle
    /\ SimIdle
    /\ SaveIdle
    /\ start_week \in Weeks
    /\ end_week \in (start_week - 1)..Min({MaxWeek, start_week + MaxCollects - 1})
    /\ success_count = 0
    /\ attempted = <<>>
    /\ season_pc = "loop"

\* collect_season runs to its end: a sequential loop, each collect_week returns
FairSeason == InitSeason /\ [][NextSeason]_vars /\ WF_vars(NextSeason)

InitSave ==
    /\ NormIdle
    /\ MatchIdle
    /\ AggIdle
    /\ RerunIdle
    /\ SimIdle
    /\ SaveIdle
    /\ SeasonIdle

\* save_performance_data called week after week, from no season file
SpecSave == InitSave /\ [][NextSave]_vars

\* update_season_totals and collect_week called in any order on one collector
SpecStore == InitAgg /\ [][NextStore]_vars

\* update_season_totals called on period records whose name and position vary
SpecLabels == InitAgg /\ [][UpdateSeasonTotalsAnyLabel]_vars

\* update_season_totals called on period records of any shape
SpecShapes == InitAgg /\ [][UpdateSeasonTotalsAnyShape]_vars

-----------------------------------------------------------------------------
(* Properties of the normalizers (SpecNorm) *)

\* C5: normalize_name is idempotent: a name normalized twice is the name
\* normalized once.
NormalizeNameIdempotent ==
    (norm_kind = "name" /\ norm_pc = 2) => norm_out2 = norm_out1

\* C6: normalize_team and normalize_position are idempotent: a team code or a
\* position normalized twice is the code normalized once.
TeamPositionIdempotent ==
    (norm_kind \in {"team", "position"} /\ norm_pc = 2) => norm_out2 = norm_out1

\* a padded lower-case alias went to its canonical code, and the code to itself
TeamPositionIdempotentWitness ==
    /\ norm_kind = "team"
    /\ norm_pc = 2
    /\ norm_in = <<" ", "l", "a", " ">>
    /\ norm_out1 = <<"L", "A", "R">>
    /\ norm_out2 = <<"L", "A", "R">>

-----------------------------------------------------------------------------
(* Properties of a resolution pass (SpecMatch) *)

AdpIds == DOMAIN adp_data

LinkCount == strategy1_matches + strategy2_matches + strategy3_matches

\* C1: at every point of a pass no candidate is linked to two primaries and no
\* primary was linked twice: the links name pairwise different candidates, and
\* every link made so far added one primary to matches and took one candidate
\* out of the pool.
AtMostOneMatch ==
    /\ \A s1, s2 \in DOMAIN matches :
           matches[s1].adp_id = matches[s2].adp_id => s1 = s2
    /\ Cardinality(DOMAIN matches) = LinkCount
    /\ Cardinality(AdpIds \ unmatched_adp) = LinkCount
    /\ {matches[s].adp_id : s \in DOMAIN matches} = AdpIds \ unmatched_adp
    /\ DOMAIN matches = DOMAIN players \ unmatched_sleeper

\* the pass is over and a primary is left unlinked although a candidate that
\* passes the test of strategy 1 with it exists: another primary took it
AtMostOneMatchWitness ==
    /\ pc = "matched"
    /\ \E s \in unmatched_sleeper : \E a \in AdpIds \ unmatched_adp :
           Strategy1Test(s, a)

\* C7: the confidence of a link is ordered by its strategy: 1.0 for
\* exact_name_team_position, 0.9 for exact_name_position, and between 0.75
\* and 0.9 for fuzzy_name_position.
ConfidenceOrderedByStrategy ==
    \A s \in DOMAIN matches :
        LET c == matches[s].confidence
        IN  CASE matches[s].match_type = "exact_name_team_position" -> ScoreEq(c, <<1, 1>>)
              [] matches[s].match_type = "exact_name_position" -> ScoreEq(c, <<9, 10>>)
              [] matches[s].match_type = "fuzzy_name_position" ->
                     ScoreGeq(c, <<3, 4>>) /\ ScoreGeq(<<9, 10>>, c)

\* the candidates of the pool whose normalized position is the primary's, and
\* not empty
PositionCompatible(sid) ==
    {aid \in unmatched_adp :
        /\ PositionMemo(players[sid].position) = PositionMemo(adp_data[aid].position)
        /\ PositionMemo(players[sid].position) # <<>>}

\* C8: at a primary's turn in strategy 3, a position-compatible candidate of
\* the pool that scores exactly 0.75, when none scores higher, becomes the
\* primary's link, with confidence 0.75; and no candidate that scores below
\* 0.75 leaves the pool.
FuzzyThresholdBoundary ==
    [][ (pc = "strategy3" /\ todo # <<>>) =>
            LET sid == Head(todo)
                at == {aid \in PositionCompatible(sid) :
                          ScoreEq(Similarity(sid, aid), <<3, 4>>)}
                above == {aid \in PositionCompatible(sid) :
                             ScoreGt(Similarity(sid, aid), <<3, 4>>)}
                below == {aid \in PositionCompatible(sid) :
                             ScoreGt(<<3, 4>>, Similarity(sid, aid))}
            IN  /\ (at # {} /\ above = {}) =>
                       /\ sid \in DOMAIN matches'
                       /\ matches'[sid].adp_id \in at
                       /\ matches'[sid].match_type = "fuzzy_name_position"
                       /\ ScoreEq(matches'[sid].confidence, <<3, 4>>)
                /\ below \subseteq unmatched_adp'
      ]_vars

\* a fuzzy link of confidence exactly 0.75 was made while a position-compatible
\* candidate with a positive score below 0.75 stayed in the pool
FuzzyThresholdBoundaryWitness ==
    \E s \in DOMAIN matches : \E a \in unmatched_adp :
        /\ matches[s].match_type = "fuzzy_name_position"
        /\ ScoreEq(matches[s].confidence, <<3, 4>>)
        /\ positions_match(players[s].position, adp_data[a].position)
        /\ ScoreGt(<<3, 4>>, Similarity(s, a))
        /\ Similarity(s, a)[1] > 0

\* normalized name, team and position of the two records are equal
EqualNameTeamPosition(sid, aid) ==
    /\ NameMemo(players[sid].full_name) = NameMemo(adp_data[aid].name)
    /\ TeamMemo(players[sid].team) = TeamMemo(adp_data[aid].team)
    /\ PositionMemo(players[sid].position) = PositionMemo(adp_data[aid].position)

\* C9 as stated: at its turn in strategy 1 a primary is linked, with confidence
\* 1.0, to the first candidate of the pool whose normalized name, team and
\* position equal its own, and is not linked when there is none.
Strategy1LinksFirstEqual ==
    [][ (pc = "strategy1" /\ s1_next <= Len(players)) =>
            LET sid == s1_next
                equal == {aid \in unmatched_adp : EqualNameTeamPosition(sid, aid)}
            IN  IF equal # {}
                THEN /\ sid \in DOMAIN matches'
                     /\ matches'[sid].adp_id = Min(equal)
                     /\ matches'[sid].match_type = "exact_name_team_position"
                     /\ ScoreEq(matches'[sid].confidence, <<1, 1>>)
                ELSE matches' = matches
      ]_vars

\* C9 as amended: the same, for the candidates whose normalized team and
\* position are moreover not empty.
Strategy1LinksFirstEqualKnown ==
    [][ (pc = "strategy1" /\ s1_next <= Len(players)) =>
            LET sid == s1_next
                equal == {aid \in unmatched_adp :
                             /\ EqualNameTeamPosition(sid, aid)
                             /\ TeamMemo(players[sid].team) # <<>>
                             /\ PositionMemo(players[sid].position) # <<>>}
            IN  IF equal # {}
                THEN /\ sid \in DOMAIN matches'
                     /\ matches'[sid].adp_id = Min(equal)
                     /\ matches'[sid].adp_player = adp_data[Min(equal)]
                     /\ matches'[sid].match_type = "exact_name_team_position"
                     /\ ScoreEq(matches'[sid].confidence, <<1, 1>>)
                     /\ unmatched_adp' = unmatched_adp \ {Min(equal)}
                ELSE matches' = matches /\ unmatched_adp' = unmatched_adp
      ]_vars

\* strategy 1 linked a primary while a later candidate of the pool equal to it
\* in name, team and position stayed unlinked: the first one won
Strategy1LinksFirstEqualWitness ==
    \E s \in DOMAIN matches : \E a \in unmatched_adp :
        /\ matches[s].match_type = "exact_name_team_position"
        /\ a > matches[s].adp_id
        /\ Strategy1Test(s, a)

\* normalized name and position of the two records are equal
EqualNamePosition(sid, aid) ==
    /\ NameMemo(players[sid].full_name) = NameMemo(adp_data[aid].name)
    /\ PositionMemo(players[sid].position) = PositionMemo(adp_data[aid].position)

\* C10 as stated: at its turn in strategy 2 a primary is linked, with
\* confidence 0.9, to a candidate of the pool whose normalized name and
\* position equal its own, whatever the teams, and is not linked when there
\* is none.
Strategy2LinksEqual ==
    [][ (pc = "strategy2" /\ todo # <<>>) =>
            LET sid == Head(todo)
                equal == {aid \in unmatched_adp : EqualNamePosition(sid, aid)}
            IN  IF equal # {}
                THEN /\ sid \in DOMAIN matches'
                     /\ matches'[sid].adp_id \in equal
                     /\ matches'[sid].match_type = "exact_name_position"
                     /\ ScoreEq(matches'[sid].confidence, <<9, 10>>)
                ELSE matches' = matches
      ]_vars

\* C10 as amended: the same, for the candidates whose normalized name and
\* position are moreover not empty.
Strategy2LinksEqualKnown ==
    [][ (pc = "strategy2" /\ todo # <<>>) =>
            LET sid == Head(todo)
                equal == {aid \in unmatched_adp :
                             /\ EqualNamePosition(sid, aid)
                             /\ NameMemo(players[sid].full_name) # <<>>
                             /\ PositionMemo(players[sid].position) # <<>>}
            IN  IF equal # {}
                THEN /\ sid \in DOMAIN matches'
                     /\ matches'[sid].adp_id \in equal
                     /\ matches'[sid].adp_player = adp_data[matches'[sid].adp_id]
                     /\ matches'[sid].match_type = "exact_name_position"
                     /\ ScoreEq(matches'[sid].confidence, <<9, 10>>)
                     /\ unmatched_adp' = unmatched_adp \ {matches'[sid].adp_id}
                ELSE matches' = matches /\ unmatched_adp' = unmatched_adp
      ]_vars

\* strategy 2 linked a primary without a team to a candidate with one
Strategy2LinksEqualWitness ==
    \E s \in DOMAIN matches :
        /\ matches[s].match_type = "exact_name_position"
        /\ players[s].team = <<>>
        /\ matches[s].adp_player.team # <<>>

-----------------------------------------------------------------------------
(* Properties of the season aggregation (SpecTotals, SpecCollect) *)

\* the weeks of the weekly performance store that hold a record for the key
WeeksHolding(key) == {w \in DOMAIN performance_data : key \in DOMAIN performance_data[w]}

\* C2: after any sequence of collect_week calls from empty stores, repeated
\* weeks included, every identity of the totals store has games_played equal to
\* the number of distinct weeks of the performance store that hold a record
\* for it (stated for the runs in which every call returned True).
GamesPlayedCountsDistinctWeeks ==
    (\A i \in 1..Len(collect_results) : collect_results[i]) =>
        \A key \in DOMAIN totals_data :
            totals_data[key].games_played = Cardinality(WeeksHolding(key))

\* the update_season_totals calls made so far for the key
AppliedTo(key) ==
    LET for_key(call) == call[1] = key IN SelectSeq(applied, for_key)

DistinctWeeks(calls) ==
    \A i, j \in 1..Len(calls) : i # j => calls[i][2].week # calls[j][2].week

\* the sum of one stat field over the period records of the calls, None as 0
RECURSIVE PeriodSum(_, _, _)
PeriodSum(calls, category, stat) ==
    IF calls = <<>> THEN 0
    ELSE LET value == Head(calls)[2].stats[category][stat]
         IN  (IF value = <<>> THEN 0 ELSE value[1]) + PeriodSum(Tail(calls), category, stat)

\* C3: for an identity new to the totals store, after update_season_totals has
\* been applied once for each of N period records with pairwise distinct
\* weeks, games_played is N and every stat field and every point total is the
\* sum of that field over the N records.
SeasonTotalsAreSums ==
    \A i \in 1..Len(PlayerKeys) :
        LET calls == AppliedTo(PlayerKeys[i])
        IN  (calls # <<>> /\ DistinctWeeks(calls)) =>
                /\ PlayerKeys[i] \in DOMAIN totals_data
                /\ totals_data[PlayerKeys[i]].games_played = Len(calls)
                /\ \A c \in 1..Len(Categories) :
                      \A k \in 1..Len(StatKeys(Categories[c])) :
                          totals_data[PlayerKeys[i]].season_totals[Categories[c]]
                              [StatKeys(Categories[c])[k]]
                            = PeriodSum(calls, Categories[c], StatKeys(Categories[c])[k])

\* an identity updated for three distinct weeks, one of them without standard
\* points, whose totals are not all zero
SeasonTotalsAreSumsWitness ==
    \E i \in 1..Len(PlayerKeys) :
        LET calls == AppliedTo(PlayerKeys[i])
        IN  /\ Len(calls) = 3
            /\ DistinctWeeks(calls)
            /\ \E n \in 1..3 : calls[n][2].stats.fantasy["points_standard"] = <<>>
            /\ totals_data[PlayerKeys[i]].season_totals.fantasy["points_standard"] # 0
            /\ totals_data[PlayerKeys[i]].season_totals.rushing["yards"] # 0

\* avg is a hundredth nearest to total / games
NearestHundredth(avg, total, games) ==
    /\ 2 * (avg * games - total) <= games
    /\ 2 * (total - avg * games) <= games

\* C4: after every update_season_totals call each derived average of the
\* updated identity is its cumulative point total divided by games_played,
\* rounded to 2 decimals: average_per_game from points_ppr,
\* average_per_game_half_ppr from points_half_ppr, average_per_game_standard
\* from points_standard.
AveragesAreRoundedQuotients ==
    \A key \in DOMAIN totals_data :
        LET totals == totals_data[key]
        IN  /\ totals.games_played > 0
            /\ NearestHundredth(totals.metrics.average_per_game,
                                totals.season_totals.fantasy["points_ppr"],
                                totals.games_played)
            /\ NearestHundredth(totals.metrics.average_per_game_half_ppr,
                                totals.season_totals.fantasy["points_half_ppr"],
                                totals.games_played)
            /\ NearestHundredth(totals.metrics.average_per_game_standard,
                                totals.season_totals.fantasy["points_standard"],
                                totals.games_played)

\* an identity with three games whose ppr average was rounded up and whose
\* half-ppr average was rounded down
AveragesAreRoundedQuotientsWitness ==
    \E key \in DOMAIN totals_data :
        LET totals == totals_data[key]
        IN  /\ totals.games_played = 3
            /\ totals.metrics.average_per_game * 3 > totals.season_totals.fantasy["points_ppr"]
            /\ totals.metrics.average_per_game_half_ppr * 3
                  < totals.season_totals.fantasy["points_half_ppr"]

-----------------------------------------------------------------------------
(* More properties of a resolution pass (SpecMatch) *)

\* the candidates of a set that no candidate of the set outscores
TopScoring(sid, candidates) ==
    {aid \in candidates :
        \A other \in candidates : ScoreGeq(Similarity(sid, aid), Similarity(sid, other))}

\* what strategy 3 must do at the turn of the primary at the head of todo, for
\* the given set of candidates it may link it to
FuzzyLinksBestOf(candidates) ==
    LET sid == Head(todo)
        top == TopScoring(sid, candidates)
    IN  IF \E aid \in top : ScoreGeq(Similarity(sid, aid), <<3, 4>>)
        THEN /\ sid \in DOMAIN matches'
             /\ matches'[sid].adp_id \in top
             /\ matches'[sid].adp_player = adp_data[matches'[sid].adp_id]
             /\ matches'[sid].match_type = "fuzzy_name_position"
             /\ matches'[sid].confidence = Similarity(sid, matches'[sid].adp_id)
        ELSE /\ matches' = matches
             /\ sid \in unmatched_sleeper'

\* a primary whose turn in strategy 3 is over, or is not the current one, gets
\* no link in this step
NoLateLink ==
    \A sid \in unmatched_sleeper :
        (todo = <<>> \/ sid # Head(todo)) => sid \notin DOMAIN matches'

\* C11 as stated: at its turn in strategy 3 a primary is linked to a remaining
\* candidate of equal normalized position with the maximum score among them, if
\* that maximum is at least 0.75, with that score as confidence; otherwise it
\* has no link, then or later.
FuzzyLinksBest ==
    [][ pc = "strategy3" =>
            /\ todo # <<>> =>
                   FuzzyLinksBestOf({aid \in unmatched_adp :
                       PositionMemo(players[Head(todo)].position)
                           = PositionMemo(adp_data[aid].position)})
            /\ NoLateLink
      ]_vars

\* C11 as amended: the same, for the remaining candidates whose normalized
\* position equals the primary's and is not empty.
FuzzyLinksBestKnown ==
    [][ pc = "strategy3" =>
            /\ todo # <<>> => FuzzyLinksBestOf(PositionCompatible(Head(todo)))
            /\ NoLateLink
      ]_vars

\* a fuzzy link was made to the better of two acceptable candidates: one that
\* scores at least 0.75, but less, is still in the pool
FuzzyLinksBestWitness ==
    \E s \in DOMAIN matches : \E a \in unmatched_adp :
        /\ matches[s].match_type = "fuzzy_name_position"
        /\ positions_match(players[s].position, adp_data[a].position)
        /\ ScoreGeq(Similarity(s, a), <<3, 4>>)
        /\ ScoreGt(matches[s].confidence, Similarity(s, a))

\* the position of the pass in its three loops
Stage(p) ==
    CASE p = "strategy1" -> 1
      [] p = "strategy2" -> 2
      [] p = "strategy3" -> 3
      [] p = "matched" -> 4

\* C12: the strategies run in order over shrinking pools: every step keeps
\* every link made so far as it is, never moves back to an earlier strategy,
\* never puts a primary or a candidate back into its unmatched set, and makes
\* a new link only between a primary and a candidate that were both unmatched.
PoolsOnlyShrink ==
    [][ /\ Stage(pc') >= Stage(pc)
        /\ \A sid \in DOMAIN matches :
               sid \in DOMAIN matches' /\ matches'[sid] = matches[sid]
        /\ unmatched_sleeper' \subseteq unmatched_sleeper
        /\ unmatched_adp' \subseteq unmatched_adp
        /\ \A sid \in DOMAIN matches' \ DOMAIN matches :
               /\ sid \in unmatched_sleeper
               /\ sid \notin unmatched_sleeper'
               /\ matches'[sid].adp_id \in unmatched_adp
               /\ matches'[sid].adp_id \notin unmatched_adp'
      ]_vars

\* the pass ended with a fuzzy link although an already linked candidate of
\* matching position scores higher with that primary: it was out of the pool
PoolsOnlyShrinkWitness ==
    /\ pc = "matched"
    /\ \E s \in DOMAIN matches : \E a \in AdpIds \ unmatched_adp :
           /\ matches[s].match_type = "fuzzy_name_position"
           /\ a # matches[s].adp_id
           /\ positions_match(players[s].position, adp_data[a].position)
           /\ ScoreGt(Similarity(s, a), matches[s].confidence)

\* C13: for fixed collections and a fixed iteration order of the candidate
\* pool, a pass produces the same set of links whatever order the primaries
\* are visited in: the second run ends with the links of the first.
SameLinksWhateverPrimaryOrder ==
    (pc = "matched" /\ run = 2) => matches = first_matches

\* C14: a record whose name is missing, empty or empty after normalization
\* is left unlinked or is linked with a confidence lower than 1.0 (the pass
\* itself goes on: normalize_name(None) and normalize_name("") are "").
EmptyNameLinksBelowOne ==
    \A sid \in DOMAIN matches :
        (\/ NameMemo(players[sid].full_name) = <<>>
         \/ NameMemo(matches[sid].adp_player.name) = <<>>)
            => ScoreGt(<<1, 1>>, matches[sid].confidence)

-----------------------------------------------------------------------------
(* More properties of the season aggregation (SpecShapes, SpecTotals) *)

\* the value a period record contributes to one stat field: 0 where the field
\* or its category is absent or None
Contribution(perf, category, stat) ==
    IF category \in DOMAIN perf.stats /\ stat \in DOMAIN perf.stats[category]
    THEN ValueOrZero(perf.stats[category][stat])
    ELSE 0

RECURSIVE ContributionSum(_, _, _)
ContributionSum(calls, category, stat) ==
    IF calls = <<>> THEN 0
    ELSE Contribution(Head(calls)[2], category, stat)
             + ContributionSum(Tail(calls), category, stat)

\* C15: update_season_totals never raises, whatever the shape of the period
\* record (a stat the entry was not initialized with, a stat or a category
\* left out), and an absent or None field contributes zero: every identity
\* updated so far has an entry, and every field of the entry is the sum of the
\* contributions of the records applied to it.
AbsentFieldsContributeZero ==
    /\ ~raised
    /\ \A i \in 1..Len(PlayerKeys) :
          LET key == PlayerKeys[i]
              calls == AppliedTo(key)
          IN  calls # <<>> =>
                 /\ key \in DOMAIN totals_data
                 /\ \A category \in DOMAIN totals_data[key].season_totals :
                       \A stat \in DOMAIN totals_data[key].season_totals[category] :
                           totals_data[key].season_totals[category][stat]
                               = ContributionSum(calls, category, stat)

\* C16: update_season_totals does no deduplication: when the same period
\* record has been applied twice for an identity, starting from no entry,
\* games_played is 2 and every cumulative stat and every point total is twice
\* the record's value.
SameRecordTwiceDoubles ==
    \A i \in 1..Len(PlayerKeys) :
        LET key == PlayerKeys[i]
            calls == AppliedTo(key)
        IN  (Len(calls) = 2 /\ calls[1] = calls[2]) =>
                /\ key \in DOMAIN totals_data
                /\ totals_data[key].games_played = 2
                /\ \A c \in 1..Len(Categories) :
                      \A k \in 1..Len(StatKeys(Categories[c])) :
                          totals_data[key].season_totals[Categories[c]][StatKeys(Categories[c])[k]]
                            = 2 * ValueOrZero(calls[1][2].stats[Categories[c]]
                                                  [StatKeys(Categories[c])[k]])

\* the week 1 record of an identity applied twice: 17.10 ppr points and 61
\* receiving yards in the record, 34.20 and 122 in the totals
SameRecordTwiceDoublesWitness ==
    \E i \in 1..Len(PlayerKeys) :
        LET key == PlayerKeys[i]
            calls == AppliedTo(key)
        IN  /\ Len(calls) = 2
            /\ calls[1] = calls[2]
            /\ calls[1][2].week = 1
            /\ calls[1][2].stats.fantasy["points_ppr"] = Some(1710)
            /\ totals_data[key].games_played = 2
            /\ totals_data[key].season_totals.fantasy["points_ppr"] = 3420
            /\ totals_data[key].season_totals.receiving["yards"] = 122

\* the identities of the period records applied so far, directly or by
\* collect_week
AppliedIdentities(calls, store) ==
    {calls[i][1] : i \in 1..Len(calls)} \cup UNION {DOMAIN store[w] : w \in DOMAIN store}

\* C17: over any sequence of update_season_totals and collect_week calls the
\* key space of the totals store only grows: every key stays, a new key is the
\* identity of an applied period record, and no games_played decreases.
TotalsKeysOnlyGrow ==
    [][/\ DOMAIN totals_data \subseteq DOMAIN totals_data'
       /\ (DOMAIN totals_data' \ DOMAIN totals_data)
              \subseteq AppliedIdentities(applied', performance_data')
       /\ \A key \in DOMAIN totals_data :
              totals_data'[key].games_played >= totals_data[key].games_played]_vars

\* a direct update for one identity, then a collected week that holds both:
\* the first entry has two games, the second is new
TotalsKeysOnlyGrowWitness ==
    /\ Len(applied) = 1
    /\ collect_results = <<TRUE>>
    /\ Cardinality(DOMAIN totals_data) = 2
    /\ totals_data[applied[1][1]].games_played = 2

-----------------------------------------------------------------------------
(* Properties of the scorer (SpecSim) *)

\* C18: calculate_name_similarity returns 0.0 whenever a name normalizes to
\* the empty string, also when both do, and 1.0 whenever the two normalized
\* names are equal and not empty.
EmptyScoresZeroEqualScoresOne ==
    sim_pc = 1 =>
        LET norm1 == normalize_name(sim_name1)
            norm2 == normalize_name(sim_name2)
        IN  /\ (norm1 = <<>> \/ norm2 = <<>>) => ScoreEq(sim_score, <<0, 1>>)
            /\ (norm1 = norm2 /\ norm1 # <<>>) => ScoreEq(sim_score, <<1, 1>>)

\* two different names that both normalize to the empty string, scored 0.0
EmptyScoresZeroEqualScoresOneWitness ==
    /\ sim_pc = 1
    /\ sim_name1 # sim_name2
    /\ sim_name1 # <<>>
    /\ sim_name2 # <<>>
    /\ normalize_name(sim_name1) = <<>>
    /\ normalize_name(sim_name2) = <<>>
    /\ ScoreEq(sim_score, <<0, 1>>)

\* base + 0.2 * last + 0.1 * first as a fraction, base = ratio of the two
\* normalized names, last and first 1 or 0
BoostedSum(norm1, norm2) ==
    LET base == Ratio(norm1, norm2)
        words1 == Split(norm1)
        words2 == Split(norm2)
        last == IF words1[Len(words1)] = words2[Len(words2)] THEN 1 ELSE 0
        first == IF words1[1] = words2[1] THEN 1 ELSE 0
    IN  <<10 * base[1] + (2 * last + first) * base[2], 10 * base[2]>>

\* C19: for two different non-empty normalized names the score is
\* min(base + 0.2 * [last tokens equal] + 0.1 * [first tokens equal], 1.0),
\* base being the ratio, between 0 and 1; every score is between 0 and 1.
BoostedScoreClamped ==
    sim_pc = 1 =>
        LET norm1 == normalize_name(sim_name1)
            norm2 == normalize_name(sim_name2)
            sum == BoostedSum(norm1, norm2)
        IN  /\ ScoreGeq(sim_score, <<0, 1>>)
            /\ ScoreGeq(<<1, 1>>, sim_score)
            /\ (norm1 # <<>> /\ norm2 # <<>> /\ norm1 # norm2) =>
                   /\ ScoreGeq(Ratio(norm1, norm2), <<0, 1>>)
                   /\ ScoreGeq(<<1, 1>>, Ratio(norm1, norm2))
                   /\ IF ScoreGt(sum, <<1, 1>>)
                      THEN ScoreEq(sim_score, <<1, 1>>)
                      ELSE ScoreEq(sim_score, sum)

\* two different names with the same last token whose boosted sum exceeds
\* 1.0, scored 1.0
BoostedScoreClampedWitness ==
    /\ sim_pc = 1
    /\ normalize_name(sim_name1) # <<>>
    /\ normalize_name(sim_name2) # <<>>
    /\ normalize_name(sim_name1) # normalize_name(sim_name2)
    /\ ScoreGt(BoostedSum(normalize_name(sim_name1), normalize_name(sim_name2)), <<1, 1>>)
    /\ ScoreEq(sim_score, <<1, 1>>)

-----------------------------------------------------------------------------
(* Frame of a resolution pass (SpecIntegrate) *)

\* C20: a resolution pass never mutates its inputs: players and adp_data,
\* and every record in them, are the same after every step of the matching
\* and of the enrichment.
InputsNotMutated ==
    [][players' = players /\ adp_data' = adp_data]_vars

\* a finished pass whose database has a linked and an unlinked entry, the
\* collections being what the pass started with
InputsNotMutatedWitness ==
    /\ pc = "integrated"
    /\ \E sid \in DOMAIN players : integrated.players[sid].ffc_matched
    /\ \E sid \in DOMAIN players : ~integrated.players[sid].ffc_matched
    /\ \A sid \in DOMAIN players : integrated.players[sid].sleeper_data = players[sid]
    /\ \A sid \in DOMAIN matches : matches[sid].adp_player = adp_data[matches[sid].adp_id]

\* the three match_type values
StrategyNames == {"exact_name_team_position", "exact_name_position", "fuzzy_name_position"}

\* C21: in the integrated output every primary appears exactly once;
\* ffc_matched is true iff the primary has a link, and then match_type is one
\* of the three strategies and match_confidence is the link's confidence;
\* otherwise match_type is None and match_confidence is 0.0; the three
\* per-strategy counters sum to matched_players.
IntegratedReportsLinks ==
    pc = "integrated" =>
        /\ DOMAIN integrated.players = DOMAIN players
        /\ \A sid \in DOMAIN players :
              LET entry == integrated.players[sid]
              IN  /\ entry.sleeper_id = sid
                  /\ entry.ffc_matched <=> sid \in DOMAIN matches
                  /\ IF sid \in DOMAIN matches
                     THEN /\ entry.match_type \in StrategyNames
                          /\ entry.match_type = matches[sid].match_type
                          /\ entry.match_confidence = matches[sid].confidence
                     ELSE /\ entry.match_type = "None"
                          /\ entry.match_confidence = <<0, 1>>
        /\ integrated.meta.matching_strategies.exact_name_team_position
              + integrated.meta.matching_strategies.exact_name_position
              + integrated.meta.matching_strategies.fuzzy_name_position
                = integrated.meta.matched_players
        /\ integrated.meta.matched_players
              = Cardinality({sid \in DOMAIN players : integrated.players[sid].ffc_matched})

\* a database with a fuzzy entry at 0.75 and an entry without a link
IntegratedReportsLinksWitness ==
    /\ pc = "integrated"
    /\ integrated.meta.matched_players = 1
    /\ integrated.meta.total_players = 2
    /\ \E sid \in DOMAIN players :
          /\ integrated.players[sid].match_type = "fuzzy_name_position"
          /\ ScoreEq(integrated.players[sid].match_confidence, FuzzyThreshold)
    /\ \E sid \in DOMAIN players : integrated.players[sid].match_type = "None"

-----------------------------------------------------------------------------
(* Termination of a resolution pass (FairMatch) *)

\* C22: for all finite collections the pass terminates and returns a link
\* set, possibly empty; a primary without a match has no link and is left in
\* the unmatched set.
PassTerminates ==
    <>(/\ pc = "matched"
       /\ DOMAIN matches \cup unmatched_sleeper = DOMAIN players
       /\ DOMAIN matches \cap unmatched_sleeper = {})

\* a finished pass over two primaries and two candidates with an empty link set
PassTerminatesWitness ==
    /\ pc = "matched"
    /\ Len(players) = 2
    /\ Len(adp_data) = 2
    /\ DOMAIN matches = {}
    /\ unmatched_sleeper = {1, 2}

-----------------------------------------------------------------------------
(* More properties of the normalizers (SpecNorm) *)

\* the rows of the alias table that list the code
TeamOwners(code) == {k \in 1..Len(team_mappings) : InList(code, team_mappings[k][2])}

\* normalize_team maps a listed alias (in any case, with or without blanks
\* around it) to its one canonical code, whatever order the table is scanned
\* in, and maps any other input to `unknown`
TeamAliasesCanonicalOr(unknown) ==
    (norm_kind = "team" /\ norm_pc >= 1 /\ norm_in # <<>>) =>
        LET owners == TeamOwners(Strip(Upper(norm_in)))
        IN  /\ Cardinality(owners) <= 1
            /\ \A k \in owners : norm_out1 = team_mappings[k][1]
            /\ owners = {} => norm_out1 = unknown

\* C23 as stated: an input not in the table is returned upper-cased and
\* otherwise unchanged.
TeamAliasesCanonical == TeamAliasesCanonicalOr(Upper(norm_in))

\* C23: an input not in the table is returned upper-cased and without the
\* blanks around it.
TeamAliasesCanonicalStripped == TeamAliasesCanonicalOr(Strip(Upper(norm_in)))

\* a padded lower-case code that is not in the table
TeamAliasesCanonicalWitness ==
    /\ norm_kind = "team"
    /\ norm_pc >= 1
    /\ norm_in = <<" ", "f", "a", " ">>
    /\ norm_out1 = <<"F", "A">>

-----------------------------------------------------------------------------
(* Nickname spellings (SpecNicknames) *)

\* 'x.y. ' in front of a string
DottedLower(xy, rest) == <<xy[1], ".", xy[2], ".", " ">> \o rest

\* the primary has its link from strategy 1, with confidence 1.0
LinkedByStrategy1 ==
    /\ 1 \in DOMAIN matches
    /\ matches[1].adp_id = 1
    /\ matches[1].match_type = "exact_name_team_position"
    /\ ScoreEq(matches[1].confidence, <<1, 1>>)

\* C24 as stated: for each nickname xy and any surname, 'XY Surname' and
\* 'X.Y. Surname' normalize to the same string 'x.y. surname', so two records
\* that differ only in that spelling and share team and position are linked
\* by strategy 1 with confidence 1.0.
NicknameFormsLinked ==
    pc = "matched" =>
        \A xy \in Nicknames, surname \in Surnames :
            players[1].full_name = Undotted(xy, surname) =>
                /\ normalize_name(players[1].full_name) = DottedLower(xy, Lower(surname))
                /\ normalize_name(adp_data[1].name) = DottedLower(xy, Lower(surname))
                /\ LinkedByStrategy1

\* C24: both spellings normalize to the same string, 'x.y. ' followed by the
\* normalized surname, and two records that differ only in that spelling are
\* linked by strategy 1 with confidence 1.0 when the team and the position
\* they share normalize to non-empty codes.
NicknameFormsLinkedKnown ==
    pc = "matched" =>
        \A xy \in Nicknames, surname \in Surnames :
            players[1].full_name = Undotted(xy, surname) =>
                /\ normalize_name(players[1].full_name)
                      = DottedLower(xy, normalize_name(surname))
                /\ normalize_name(adp_data[1].name)
                      = DottedLower(xy, normalize_name(surname))
                /\ (normalize_team(players[1].team) # <<>>
                       /\ normalize_position(players[1].position) # <<>>)
                      => LinkedByStrategy1

\* 'PJ Brown' and 'P.J. Brown', both LA and wr, linked by strategy 1
NicknameFormsLinkedWitness ==
    /\ pc = "matched"
    /\ players[1].full_name = <<"P","J"," ","B","r","o","w","n">>
    /\ adp_data[1].name = <<"P",".","J","."," ","B","r","o","w","n">>
    /\ players[1].team = <<"L","A">>
    /\ players[1].position = <<"w","r">>
    /\ LinkedByStrategy1

\* C25: while every save_performance_data call has returned, the season file
\* holds for each week exactly the list of the latest call for that week, its
\* metadata.total_performances is the number of records it holds, and a call
\* repeating the call before it leaves the performances as they were
SaveCalls(week) == {i \in 1..Len(saves) : saves[i].week = week}

LatestSaved(week) ==
    IF SaveCalls(week) = {} THEN <<>>
    ELSE saves[CHOOSE i \in SaveCalls(week) : \A j \in SaveCalls(week) : j <= i].performance_data

StoredFor(week) ==
    LET OfWeek(p) == p.week = week
    IN  SelectSeq(LoadSeasonData(season_file).performances, OfWeek)

AllSavesReturned == \A i \in 1..Len(saves) : saves[i].returned

SeasonFileHoldsLatest ==
    AllSavesReturned =>
        /\ \A week \in Weeks : StoredFor(week) = LatestSaved(week)
        /\ season_file.data.metadata.total_performances = Len(season_file.data.performances)

RepeatedSaveChangesNothing ==
    (/\ Len(saves') = Len(saves) + 1
     /\ Len(saves) >= 1
     /\ saves'[Len(saves')] = saves[Len(saves)]
     /\ AllSavesReturned')
        => season_file'.data.performances = season_file.data.performances

SaveDeduplicatesByWeek == []SeasonFileHoldsLatest /\ [][RepeatedSaveChangesNothing]_vars

SaveDeduplicatesByWeekWitness ==
    /\ Len(saves) = 2
    /\ saves[1] = saves[2]
    /\ saves[1].returned
    /\ Len(saves[1].performance_data) = 2
    /\ Len(season_file.data.performances) = 2
    /\ season_file.data.metadata.total_performances = 2

\* C26: collect_season(start, end) calls collect_week once for each week from
\* start to end, in ascending order, whatever the calls return: at every
\* moment the weeks attempted are the first weeks of the range and the count
\* is the number of True results, at most end - start + 1, and the loop ends
\* with every week of the range attempted
WeekRange == [i \in 1..(end_week - start_week + 1) |-> start_week + i - 1]

AttemptedInOrder ==
    /\ Len(attempted) <= Len(WeekRange)
    /\ \A i \in 1..Len(attempted) : attempted[i] = WeekRange[i]
    /\ Len(collect_results) = Len(attempted)
    /\ success_count = Cardinality({i \in 1..Len(collect_results) : collect_results[i]})
    /\ success_count <= end_week - start_week + 1

SeasonAttemptsEveryWeek ==
    /\ []AttemptedInOrder
    /\ <>[](season_pc = "done" /\ attempted = WeekRange)

SeasonAttemptsEveryWeekWitness ==
    /\ season_pc = "done"
    /\ attempted = <<start_week, start_week + 1>>
    /\ collect_results = <<FALSE, TRUE>>
    /\ success_count = 1

\* C27: collect_week is all-or-nothing: a call that returns False leaves the
\* two stores and their two files as they were; after a call that returns
\* True for a week, every identity with a record in that week of the
\* performance store has a totals entry with one more game than before
CollectWeekReturned == Len(collect_results') = Len(collect_results) + 1

GamesBefore(key) == IF key \in DOMAIN totals_data THEN totals_data[key].games_played ELSE 0

WeekCounted ==
    \E week \in DOMAIN performance_data' :
        /\ performance_file' = performance_data'
        /\ totals_file' = totals_data'
        /\ \A key \in DOMAIN performance_data'[week] :
              /\ key \in DOMAIN totals_data'
              /\ totals_data'[key].games_played = GamesBefore(key) + 1

AllOrNothing ==
    CollectWeekReturned =>
        IF collect_results'[Len(collect_results')]
        THEN WeekCounted
        ELSE UNCHANGED <<performance_data, totals_data, performance_file, totals_file>>

CollectWeekAllOrNothing == [][AllOrNothing]_vars

\* C28: update_season_totals(k, p) changes only the totals entry of k: every
\* other identity keeps its entry, no other identity is added or removed, and
\* an entry k already had keeps the player_name and position it was created with
UpdatedKey == applied'[Len(applied')][1]

OnlyEntryOfKeyChanges ==
    Len(applied') = Len(applied) + 1 =>
        /\ DOMAIN totals_data' = DOMAIN totals_data \cup {UpdatedKey}
        /\ \A key \in DOMAIN totals_data \ {UpdatedKey} : totals_data'[key] = totals_data[key]
        /\ UpdatedKey \in DOMAIN totals_data =>
              /\ totals_data'[UpdatedKey].player_name = totals_data[UpdatedKey].player_name
              /\ totals_data'[UpdatedKey].position = totals_data[UpdatedKey].position

UpdateChangesOnlyItsEntry == [][OnlyEntryOfKeyChanges]_vars

UpdateChangesOnlyItsEntryWitness ==
    /\ Len(applied) = 3
    /\ applied[1][1] = applied[3][1]
    /\ applied[2][1] # applied[1][1]
    /\ applied[3][2].player_name # applied[1][2].player_name
    /\ applied[3][2].position # applied[1][2].position
    /\ totals_data[applied[1][1]].player_name = applied[1][2].player_name
    /\ totals_data[applied[1][1]].position = applied[1][2].position
    /\ totals_data[applied[1][1]].games_played = 2
    /\ totals_data[applied[2][1]].games_played = 1

\* C29: the greedy result is maximal: when the pass ends no unlinked primary
\* with a non-empty name and unlinked candidate have equal non-empty
\* normalized positions and either equal normalized names or a similarity of
\* at least 0.75
SamePosition(sid, aid) ==
    /\ PositionMemo(players[sid].position) # <<>>
    /\ PositionMemo(players[sid].position) = PositionMemo(adp_data[aid].position)

Linkable(sid, aid) ==
    /\ SamePosition(sid, aid)
    /\ \/ NameMemo(players[sid].full_name) = NameMemo(adp_data[aid].name)
       \/ ScoreGeq(Similarity(sid, aid), FuzzyThreshold)

\* as stated: the primary's name as it is in the record
GreedyMaximal ==
    pc = "matched" =>
        \A sid \in unmatched_sleeper, aid \in unmatched_adp :
            players[sid].full_name # <<>> => ~Linkable(sid, aid)

\* the same for a primary whose normalized name is non-empty
GreedyMaximalNormalized ==
    pc = "matched" =>
        \A sid \in unmatched_sleeper, aid \in unmatched_adp :
            NameMemo(players[sid].full_name) # <<>> => ~Linkable(sid, aid)

GreedyMaximalWitness ==
    /\ pc = "matched"
    /\ \E sid \in unmatched_sleeper, aid \in unmatched_adp :
          /\ NameMemo(players[sid].full_name) # <<>>
          /\ SamePosition(sid, aid)
    /\ \E sid \in unmatched_sleeper, aid \in unmatched_adp :
          /\ players[sid].full_name = Str_Jr
          /\ Linkable(sid, aid)

\* C30: each link carries the strictest strategy its pair satisfies: a pair
\* linked as exact_name_position does not have equal non-empty normalized
\* teams, and a pair linked as fuzzy_name_position does not have equal
\* normalized names
SameTeam(sid, aid) ==
    /\ TeamMemo(players[sid].team) # <<>>
    /\ TeamMemo(players[sid].team) = TeamMemo(adp_data[aid].team)

SameName(sid, aid) == NameMemo(players[sid].full_name) = NameMemo(adp_data[aid].name)

LinksOfType(type) == {sid \in DOMAIN matches : matches[sid].match_type = type}

LinksLabelledStrictest ==
    /\ \A sid \in LinksOfType("exact_name_position") : ~SameTeam(sid, matches[sid].adp_id)
    /\ \A sid \in LinksOfType("fuzzy_name_position") : ~SameName(sid, matches[sid].adp_id)

LinksLabelledStrictestWitness ==
    /\ pc = "matched"
    /\ LinksOfType("exact_name_position") # {}
    /\ LinksOfType("fuzzy_name_position") # {}

=============================================================================
